---- MODULE Spec2Model ----
(***************************************************************************)
(* Sample-allocation bookkeeping of the approximate control variate (ACV)  *)
(* estimators of pyapprox/multifidelity/multioutput_monte_carlo.py.        *)
(*                                                                         *)
(* Arrays keep the contents they have in numpy (0-based indices as         *)
(* values); a TLA+ sequence position k holds the numpy entry k-1.          *)
(* recursion_index[m] is the python entry recursion_index[m-1], the        *)
(* recursion parent of low-fidelity model m.                               *)
(***************************************************************************)
EXTENDS Integers, Sequences, FiniteSets, TLC

\* ---------------------------------------------------------------- bounds
NModels == 3
MaxCount == 2
MaxSeed == 1
HFCost == 2
TargetStep == 3
MaxTargetSteps == 5
MaxSolverSeed == 8
MaxCovSeed == 1
CritModulus == 3
MaxRowDelta == 1
MaxCandidates == 4
MaxSearchSeed == 4
OutcomeModulus == 5
MaxPilot == 2
MaxEstimators == 3
MaxReducedCost == 4
RatioScale == 30000000
CostScale == 20000000
MaxBudget == 40
MaxModelCost == 2

\* 1/1e-8, the tolerance of _round_partition_ratios
EpsInv == 100000000

Models == 0..(NModels-1)
LFModels == 1..(NModels-1)
Cols == 0..(2*NModels-1)
None == << >>

VARIABLES
    \* the estimator object
    est_type, costs, cov_seed, opt_criteria, tree_depth, allow_failures,
    recursion_index, allocation_mat,
    \* the fields frozen by allocate_samples
    rounded_npartition_samples, rounded_nsamples_per_model,
    rounded_target_cost, rounded_partition_ratios, optimized_criteria,
    optimized_covariance, optimized_CF, optimized_cf, optimized_weights,
    \* the call in progress and its outcome
    last_op, raised, target_cost, solver_seed, solver_runs,
    best_result, best_criteria, sweep_log,
    call_rows, est_value,
    \* realized data and its acv subsets
    values_per_model, acv_values, combined_values, boot_indices,
    estimator_types, ncandidate_models, max_nmodels, best_allow_failures,
    nprocs, search_seed, best_est, best_model_indices, subsets_tried,
    best_raised, stat_type,
    \* the arguments of a call of get_estimator, _set_recursion_index or
    \* compute_variance_reductions, and what the call raised or returned
    get_args, get_raised, index_arg, var_args, var_result,
    \* the local variables of a call of AETCBLUE.explore
    explore_locals

objVars == <<est_type, recursion_index, allocation_mat>>
cfgVars == <<costs, cov_seed, opt_criteria, tree_depth, allow_failures>>
frozenVars == <<rounded_nsamples_per_model, rounded_target_cost,
                rounded_partition_ratios, optimized_criteria,
                optimized_covariance, optimized_CF, optimized_cf,
                optimized_weights>>
callVars == <<last_op, raised, target_cost, solver_seed, solver_runs>>
sweepVars == <<best_result, best_criteria, sweep_log>>
evalVars == <<call_rows, est_value>>
dataVars == <<values_per_model, acv_values, combined_values, boot_indices>>

argVars == <<get_args, get_raised, index_arg, var_args, var_result, explore_locals>>

\* what the partition bookkeeping never touches
bestVars == <<estimator_types, ncandidate_models, max_nmodels, best_allow_failures, nprocs, search_seed, best_est, best_model_indices, subsets_tried, best_raised, stat_type, argVars>>
allocVars == <<cfgVars, frozenVars, callVars, sweepVars, evalVars, bestVars>>

vars == <<objVars, rounded_npartition_samples, allocVars, dataVars>>

\* ------------------------------------------------------ array helpers
\* np.arange(lb, ub)
Arange(lb, ub) == [k \in 1..(ub-lb) |-> lb + k - 1]

\* arr[idx] for an index array idx (numpy fancy indexing)
Take(arr, idx) == [k \in 1..Len(idx) |-> arr[idx[k] + 1]]

\* arr[lb:ub] (python slice, clipped to the array as numpy clips it)
Slice(arr, lb, ub) ==
    LET hi == IF ub > Len(arr) THEN Len(arr) ELSE ub
    IN  [k \in 1..(IF hi > lb THEN hi - lb ELSE 0) |-> arr[lb + k]]

\* npartition_samples[rows].sum()
RECURSIVE SumOver(_, _)
SumOver(f, S) ==
    IF S = {} THEN 0
    ELSE LET x == CHOOSE y \in S : TRUE IN f[x] + SumOver(f, S \ {x})

\* ------------------------------------------------- allocation matrices
\* np.zeros((nmodels, 2*nmodels)) with mat[ii, 2*ii+1] = 1
UnitPlainColumns == [r \in Models |-> [c \in Cols |-> IF c = 2*r + 1 THEN 1 ELSE 0]]

\* the copy taken from the model's own plain column
CopyParentColumns_own(mat, index) ==
    [r \in Models |-> [c \in Cols |->
        IF c % 2 = 0 /\ c >= 2 THEN mat[r][c + 1] ELSE mat[r][c]]]

\* mat[:, 2*ii] = mat[:, recursion_index[ii-1]*2+1] for ii = 1..nmodels-1;
\* the source columns are odd and are not written by this loop; numpy counts
\* a negative column index from the end
CopyParentColumns(mat, index) ==
    [r \in Models |-> [c \in Cols |->
        IF c % 2 = 0 /\ c >= 2
        THEN mat[r][(2*index[c \div 2] + 1) % (2*NModels)]
        ELSE mat[r][c]]]

\* np.where(mat[:, ii] == 1)[0][-1]
LastActiveRow(mat, c) ==
    CHOOSE r \in Models : mat[r][c] = 1 /\ \A q \in Models : mat[q][c] = 1 => q <= r

\* the propagation loop left out
PropagateDown_skipped(mat) == mat

\* for ii in range(2, 2*nmodels): mat[:II, ii] = 1
PropagateDown(mat) ==
    [r \in Models |-> [c \in Cols |->
        IF c >= 2 /\ r < LastActiveRow(mat, c) THEN 1 ELSE mat[r][c]]]

_get_allocation_matrix_gmf(index) ==
    PropagateDown(CopyParentColumns(UnitPlainColumns, index))

\* the saturation loop left out
SaturatePlainColumns_skipped(mat) == mat

\* mat[:, 2*ii+1] = np.maximum(mat[:, 2*ii], mat[:, 2*ii+1]) for ii >= 1
SaturatePlainColumns(mat) ==
    [r \in Models |-> [c \in Cols |->
        IF c % 2 = 1 /\ c >= 3
        THEN (IF mat[r][c-1] > mat[r][c] THEN mat[r][c-1] ELSE mat[r][c])
        ELSE mat[r][c]]]

_get_allocation_matrix_acvis(index) ==
    SaturatePlainColumns(CopyParentColumns(UnitPlainColumns, index))

\* the recursive-difference matrix with the propagation loop of GMF applied
_get_allocation_matrix_acvrd_propagated(index) ==
    PropagateDown(CopyParentColumns(UnitPlainColumns, index))

_get_allocation_matrix_acvrd(index) ==
    CopyParentColumns(UnitPlainColumns, index)

\* GMFEstimator / GISEstimator / GRDEstimator ._create_allocation_matrix
_create_allocation_matrix(type, index) ==
    CASE type = "gmf" -> _get_allocation_matrix_gmf(index)
      [] type = "gis" -> _get_allocation_matrix_acvis(index)
      [] type = "grd" -> _get_allocation_matrix_acvrd(index)

Policies == {"gmf", "gis", "grd"}
RecursionIndices == [LFModels -> Models]

\* np.where((mat[:, 2*ii] == 1) | (mat[:, 2*ii+1] == 1))[0]
ActivePartitions(mat, ii) == {r \in Models : mat[r][2*ii] = 1 \/ mat[r][2*ii+1] = 1}
\* np.where(mat[:, c] == 1)[0]
ActiveInColumn(mat, c) == {r \in Models : mat[r][c] = 1}

\* ------------------------------------------------ partition accounting
\* np.cumsum(npartition_samples)[j-1], 0 for j = 0
RECURSIVE CumSum(_, _)
CumSum(nps, j) == IF j = 0 THEN 0 ELSE CumSum(nps, j-1) + nps[j-1]

\* every section counted from the start of the pool
_get_partition_indices_from_zero(nps) ==
    [j \in Models |-> Arange(0, nps[j])]

\* ACVEstimator._get_partition_indices: np.split of arange(sum) at the
\* cumulative sums; the last section runs to the end of the pool
_get_partition_indices(nps) ==
    LET total == CumSum(nps, NModels)
    IN  [j \in Models |->
            Arange(CumSum(nps, j),
                   IF j = NModels - 1 THEN total ELSE CumSum(nps, j+1))]

\* np.hstack([f[idx] for idx in S]) with S in increasing order, from row j on
RECURSIVE HStackFrom(_, _, _)
HStackFrom(f, S, j) ==
    IF j >= NModels THEN << >>
    ELSE (IF j \in S THEN f[j] ELSE << >>) \o HStackFrom(f, S, j+1)

HStack(f, S) == HStackFrom(f, S, 0)

\* ACVEstimator._compute_single_model_nsamples
_compute_single_model_nsamples(mat, nps, model_id) ==
    SumOver(nps, ActivePartitions(mat, model_id))

\* ACVEstimator._compute_nsamples_per_model
_compute_nsamples_per_model(mat, nps) ==
    [ii \in Models |-> _compute_single_model_nsamples(mat, nps, ii)]

\* numpy's global generator: a linear congruential state, one step per draw
RngStep(s) == (5*s + 3) % 32
RECURSIVE RngAdvance(_, _)
RngAdvance(s, n) == IF n = 0 THEN s ELSE RngAdvance(RngStep(s), n-1)

\* np.random.choice(np.arange(n), size=n, replace=True) from generator state s
RandomChoice(n, s) == [k \in 1..n |-> (RngAdvance(s, k) \div 2) % n]

\* the same loop drawing a fresh resampling at every visit of a partition
RECURSIVE SubsetIndicesLoop_redraw(_, _, _, _, _)
\* the same loop with lb never advanced
RECURSIVE SubsetIndicesLoop_lb_kept(_, _, _, _, _)
SubsetIndicesLoop_lb_kept(idx, active, partition_indices, bootstrap, st) ==
    IF idx >= NModels THEN st
    ELSE IF idx \notin active
    THEN SubsetIndicesLoop_lb_kept(idx+1, active, partition_indices, bootstrap, st)
    ELSE
      LET n == Len(partition_indices[idx])
          ub == st.lb + n
          draw == bootstrap /\ st.random[idx] = None
          rnd == IF draw THEN RandomChoice(n, st.rng) ELSE st.random[idx][1]
          sub == IF bootstrap THEN Take(Arange(st.lb, ub), rnd)
                 ELSE Arange(st.lb, ub)
      IN  SubsetIndicesLoop_lb_kept(idx+1, active, partition_indices, bootstrap,
            [lb |-> st.lb,
             subset |-> [st.subset EXCEPT ![idx] = sub],
             random |-> IF draw THEN [st.random EXCEPT ![idx] = <<rnd>>]
                        ELSE st.random,
             rng |-> IF draw THEN RngAdvance(st.rng, n) ELSE st.rng])

SubsetIndicesLoop_redraw(idx, active, partition_indices, bootstrap, st) ==
    IF idx >= NModels THEN st
    ELSE IF idx \notin active
    THEN SubsetIndicesLoop_redraw(idx+1, active, partition_indices, bootstrap, st)
    ELSE
      LET n == Len(partition_indices[idx])
          ub == st.lb + n
          rnd == RandomChoice(n, st.rng)
          sub == IF bootstrap THEN Take(Arange(st.lb, ub), rnd)
                 ELSE Arange(st.lb, ub)
      IN  SubsetIndicesLoop_redraw(idx+1, active, partition_indices, bootstrap,
            [lb |-> ub,
             subset |-> [st.subset EXCEPT ![idx] = sub],
             random |-> [st.random EXCEPT ![idx] = <<rnd>>],
             rng |-> RngAdvance(st.rng, n)])

\* the loop "for idx in active_partitions" of
\* _get_partition_indices_per_acv_subset, from row idx on; st carries
\* lb, subset_indices, random_partition_indices and the generator state;
\* an entry of random_partition_indices is None or <<array>>
RECURSIVE SubsetIndicesLoop(_, _, _, _, _)
SubsetIndicesLoop(idx, active, partition_indices, bootstrap, st) ==
    IF idx >= NModels THEN st
    ELSE IF idx \notin active
    THEN SubsetIndicesLoop(idx+1, active, partition_indices, bootstrap, st)
    ELSE
      LET n == Len(partition_indices[idx])
          ub == st.lb + n
          draw == bootstrap /\ st.random[idx] = None
          rnd == IF draw THEN RandomChoice(n, st.rng) ELSE st.random[idx][1]
          sub == IF bootstrap THEN Take(Arange(st.lb, ub), rnd)
                 ELSE Arange(st.lb, ub)
      IN  SubsetIndicesLoop(idx+1, active, partition_indices, bootstrap,
            [lb |-> ub,
             subset |-> [st.subset EXCEPT ![idx] = sub],
             random |-> IF draw THEN [st.random EXCEPT ![idx] = <<rnd>>]
                        ELSE st.random,
             rng |-> IF draw THEN RngAdvance(st.rng, n) ELSE st.rng])

\* the loop "for ii in range(1, self._nmodels)" of
\* _get_partition_indices_per_acv_subset, from model ii on
RECURSIVE AcvSubsetLoop(_, _, _, _, _, _, _)
AcvSubsetLoop(ii, mat, partition_indices, bootstrap, random, rng, acc) ==
    IF ii >= NModels THEN acc
    ELSE
      LET st == SubsetIndicesLoop(0, ActivePartitions(mat, ii),
                    partition_indices, bootstrap,
                    [lb |-> 0, subset |-> [j \in Models |-> << >>],
                     random |-> random, rng |-> rng])
          indices_1 == HStack(st.subset, ActiveInColumn(mat, 2*ii))
          indices_2 == HStack(st.subset, ActiveInColumn(mat, 2*ii+1))
      IN  AcvSubsetLoop(ii+1, mat, partition_indices, bootstrap,
                        st.random, st.rng, acc \o <<indices_1, indices_2>>)

\* ACVEstimator._get_partition_indices_per_acv_subset; seed is the state
\* of the random generator at the call
_get_partition_indices_per_acv_subset(mat, nps, bootstrap, seed) ==
    LET partition_indices == _get_partition_indices(nps)
        n0 == Len(partition_indices[0])
        random0 == RandomChoice(n0, seed)
        random == [j \in Models |-> IF bootstrap /\ j = 0 THEN <<random0>> ELSE None]
        first == IF bootstrap THEN Take(partition_indices[0], random0)
                 ELSE partition_indices[0]
    IN  AcvSubsetLoop(1, mat, partition_indices, bootstrap, random,
                      IF bootstrap THEN RngAdvance(seed, n0) ELSE seed,
                      << << >>, first >>)

\* ACVEstimator.generate_samples_per_model with npilot_samples = 0; a model
\* value is identified with the pool index of the sample it was computed at
generate_samples_per_model(mat, nps) ==
    LET partition_indices == _get_partition_indices(nps)
    IN  [ii \in Models |-> HStack(partition_indices, ActivePartitions(mat, ii))]

\* the row-count checks of ACVEstimator._separate_values_per_model
SeparateRaises(values, nsamples_per_model) ==
    \/ DOMAIN values # Models
    \/ \E ii \in Models : Len(values[ii]) # nsamples_per_model[ii]

\* ACVEstimator._separate_values_per_model, after its checks
_separate_values_per_model(mat, nps, values, bootstrap, seed) ==
    LET acv_partition_indices ==
            _get_partition_indices_per_acv_subset(mat, nps, bootstrap, seed)
    IN  [k \in 1..Len(acv_partition_indices) |->
            Take(values[(k-1) \div 2], acv_partition_indices[k])]

\* the same loop without the "if not found" test
RECURSIVE CombineLoop_nofound(_, _, _, _, _, _, _, _)
CombineLoop_nofound(jj, ii, mat, nps, pair, lb, lb2, acc) ==
    IF jj >= NModels THEN acc
    ELSE
      LET in1 == mat[jj][2*ii] = 1
          in2 == mat[jj][2*ii+1] = 1
          ub == IF in1 THEN lb + nps[jj] ELSE lb
          ub2 == IF in2 THEN lb2 + nps[jj] ELSE lb2
          add1 == IF in1 THEN Slice(pair[1], lb, ub) ELSE << >>
          add2 == IF in2 THEN Slice(pair[2], lb2, ub2) ELSE << >>
      IN  CombineLoop_nofound(jj+1, ii, mat, nps, pair, ub, ub2,
                              acc \o add1 \o add2)

\* the loop "for jj in range(nmodels)" of _combine_acv_values for model ii;
\* pair = <<acv_values[ii][0], acv_values[ii][1]>>
RECURSIVE CombineLoop(_, _, _, _, _, _, _, _)
CombineLoop(jj, ii, mat, nps, pair, lb, lb2, acc) ==
    IF jj >= NModels THEN acc
    ELSE
      LET in1 == mat[jj][2*ii] = 1
          in2 == mat[jj][2*ii+1] = 1
          ub == IF in1 THEN lb + nps[jj] ELSE lb
          ub2 == IF in2 THEN lb2 + nps[jj] ELSE lb2
          add1 == IF in1 THEN Slice(pair[1], lb, ub) ELSE << >>
          add2 == IF in2 /\ ~in1 THEN Slice(pair[2], lb2, ub2) ELSE << >>
      IN  CombineLoop(jj+1, ii, mat, nps, pair, ub, ub2, acc \o add1 \o add2)

\* _combine_acv_values; acv_values[ii] is the pair of model ii
_combine_acv_values(mat, nps, acv) ==
    [ii \in Models |->
        IF ii = 0 THEN acv[0][2]
        ELSE CombineLoop(0, ii, mat, nps, acv[ii], 0, 0, << >>)]

\* the caller's regrouping of the flat list of 2*nmodels subsets into pairs
PairUp(flat) == [ii \in Models |-> <<flat[2*ii + 1], flat[2*ii + 2]>>]

\* ------------------------------------------------------ exact arithmetic
\* a real number is kept as a fraction n/d with d > 0
Rat(n, d) == [n |-> n, d |-> d]

\* x < 1 - 1e-8, that is (x.d - x.n) * EpsInv > x.d, decided without
\* forming the product
BelowOneMinusEps(x) == x.d - x.n > x.d \div EpsInv

\* np.floor(x) without the tolerance
FloorEps_plain(x) == x.n \div x.d

\* np.floor(x + 1e-8).astype(int) for x >= 0
FloorEps(x) ==
    LET k == x.n \div x.d
        r == x.n % x.d
    IN  IF x.d - r <= x.d \div EpsInv THEN k + 1 ELSE k

\* np.round(x) for x >= 0 (half to even)
RoundHalfEven(x) ==
    LET k == x.n \div x.d
        r == x.n % x.d
    IN  IF 2*r < x.d THEN k
        ELSE IF 2*r > x.d THEN k + 1
        ELSE IF k % 2 = 0 THEN k ELSE k + 1

\* int(np.floor(a / b)) for a >= 0, b > 0
FloorDiv(a, b) == a \div b

\* ----------------------------------------------------- estimator kinds
ACVTypes == {"gmf", "gis", "grd", "mfmc", "mlmc"}
AllTypes == {"mc", "cv"} \cup ACVTypes

\* a function with domain S built pair by pair, so that it is held as a
\* table and not as a rule that is re-applied at every lookup
RECURSIVE Tabulate(_, _)
Tabulate(f, S) ==
    IF S = {} THEN << >>
    ELSE LET x == CHOOSE y \in S : TRUE
         IN  (x :> f[x]) @@ Tabulate(f, S \ {x})

\* the matrices _create_allocation_matrix returns, for every policy and index
MatrixTable ==
    Tabulate([t \in Policies |->
        Tabulate([index \in RecursionIndices |->
            LET mat == _create_allocation_matrix(t, index)
            IN  Tabulate([r \in Models |-> Tabulate(mat[r], Cols)], Models)],
          RecursionIndices)], Policies)

\* MFMCEstimator and MLMCEstimator pass recursion_index=np.arange(nmodels-1)
ChainRecursionIndex == [m \in LFModels |-> m - 1]

\* _optim._get_sample_allocation_matrix_mlmc: the recursive-difference
\* matrix of the chain index (MLMCEstimator derives from GRDEstimator)
_get_sample_allocation_matrix_mlmc == MatrixTable["grd"][ChainRecursionIndex]

\* self._create_allocation_matrix(index) of every ACV class
CreateAllocationMatrix(type, index) ==
    CASE type = "mlmc" -> _get_sample_allocation_matrix_mlmc
      [] type = "mfmc" -> MatrixTable["gmf"][index]
      [] OTHER -> MatrixTable[type][index]

\* ACVEstimator._get_allocation_matrix, overridden by MFMCEstimator with
\* _optim._get_sample_allocation_matrix_mfmc(nmodels), kept as a name
_get_allocation_matrix(type, mat) ==
    IF type = "mfmc" THEN "_get_sample_allocation_matrix_mfmc" ELSE mat

ModelCosts == [m \in Models |-> IF m = 0 THEN HFCost ELSE 1]

\* costs.sum()
SumCosts(c) == SumOver(c, DOMAIN c)

\* the model ratios without the 1 added for the high-fidelity partition
_partition_ratios_to_model_ratios_no_hf(mat, pr) ==
    [ii \in LFModels |-> SumOver(pr.num, ActivePartitions(mat, ii) \ {0})]

\* -------------------------------------------- counts from partition ratios
\* partition ratios are kept over a common denominator:
\* ratio of partition m = pr.num[m] / pr.den
\* ACVEstimator._partition_ratios_to_model_ratios, numerators over pr.den
_partition_ratios_to_model_ratios(mat, pr) ==
    [ii \in LFModels |->
        SumOver(pr.num, ActivePartitions(mat, ii) \ {0})
          + (IF mat[0][2*ii] = 1 \/ mat[0][2*ii+1] = 1 THEN pr.den ELSE 0)]

\* ACVEstimator._get_num_high_fidelity_samples_from_partition_ratios
_get_num_high_fidelity_samples_from_partition_ratios(mat, c, target, pr) ==
    LET model_ratios == _partition_ratios_to_model_ratios(mat, pr)
        weighted == [ii \in LFModels |-> model_ratios[ii] * c[ii]]
    IN  Rat(target * pr.den, c[0] * pr.den + SumOver(weighted, LFModels))

\* the element of a one-element set: Only({e : x \in {v}}) is e with x
\* standing for the value of v, which is computed once
Only(S) == CHOOSE x \in S : TRUE

\* ACVEstimator._npartition_samples_from_partition_ratios; the product
\* (pr.num[j] / pr.den) * (target * pr.den / nhf_samples.d) is kept with
\* the factor pr.den cancelled
_npartition_samples_from_partition_ratios(mat, c, target, pr) ==
    Only({ Tabulate([j \in Models |->
                        IF j = 0 THEN nhf_samples
                        ELSE Rat(pr.num[j] * target, nhf_samples.d)], Models) :
           nhf_samples \in
               {_get_num_high_fidelity_samples_from_partition_ratios(
                    mat, c, target, pr)} })

\* the test of _round_partition_ratios that raises RuntimeError
RoundingRaises(nhf_samples) == BelowOneMinusEps(nhf_samples)

\* ACVEstimator._round_partition_ratios
RoundedRatios(mat, c, npartition_samples, rounded) ==
    LET nsamples == _compute_nsamples_per_model(mat, rounded)
        weighted == [m \in Models |-> nsamples[m] * c[m]]
    IN  [raises |-> RoundingRaises(npartition_samples[0]),
         ratios |-> [num |-> [m \in LFModels |-> rounded[m]], den |-> rounded[0]],
         cost |-> SumOver(weighted, Models)]

_round_partition_ratios(mat, c, target, pr) ==
    Only({ Only({ RoundedRatios(mat, c, npartition_samples, rounded) :
                  rounded \in {Tabulate([j \in Models |->
                                   FloorEps(npartition_samples[j])], Models)} }) :
           npartition_samples \in
               {_npartition_samples_from_partition_ratios(mat, c, target, pr)} })

\* --------------------------------------- covariances, weights, criterion
\* The statistic object (stats.py) is outside the estimator: its results
\* are kept as terms that name the inputs they were computed from.
\* CVEstimator._get_discrepancy_covariances / ACVEstimator._get_discrepancy_covariances
_get_discrepancy_covariances(type, mat, nps) ==
    LET m == IF type = "cv" THEN None ELSE _get_allocation_matrix(type, mat)
    IN  [CF |-> <<"CF", m, nps>>, cf |-> <<"cf", m, nps>>]

\* CVEstimator._weights, overridden by MLMCEstimator._weights
_weights(type, CF, cf) ==
    IF type = "mlmc" THEN <<"neg_ones", cf>>
    ELSE <<"neg_pinv_T", CF, cf>>

\* MCEstimator / CVEstimator / MLMCEstimator ._covariance_from_npartition_samples
_covariance_from_npartition_samples(type, mat, nps) ==
    IF type = "mc" THEN <<"hf_covariance", nps[0]>>
    ELSE
      LET d == _get_discrepancy_covariances(type, mat, nps)
          w == _weights(type, d.CF, d.cf)
      IN  <<IF type = "mlmc" THEN "non_optimal_weights" ELSE "optimal_weights",
            nps[0], w, d.CF, d.cf>>

\* stat.high_fidelity_estimator_covariance(nhf) divides by nhf
CovarianceIsFinite(cov) == cov[2] >= 1

CritInf == CritModulus

\* an arbitrary but fixed function of the model covariance (cov_seed), the
\* allocation matrix and the partition counts: the finite values of
\* self._optimization_criteria(covariance)
CriterionValue(seed, mat, nps) ==
    LET cells == {rc \in Models \X Cols : mat # None /\ mat[rc[1]][rc[2]] = 1}
        wmat == [rc \in cells |-> rc[1] + rc[2] + 1]
        wnps == [j \in DOMAIN nps |-> (j + 1) * nps[j]]
    IN  (seed + SumOver(wmat, cells) + SumOver(wnps, DOMAIN nps)) % CritModulus

\* self._optimization_criteria(covariance): log_trace_variance raises when
\* the value is not finite, determinant_variance returns it
_optimization_criteria(kind, seed, mat, nps, cov) ==
    IF CovarianceIsFinite(cov)
    THEN [raises |-> FALSE, value |-> CriterionValue(seed, mat, nps)]
    ELSE [raises |-> kind = "log_trace", value |-> CritInf]

\* no call of get_estimator, _set_recursion_index or
\* compute_variance_reductions has been made
NoArguments ==
    /\ get_args = None /\ get_raised = "none" /\ index_arg = None
    /\ var_args = None /\ var_result = None /\ explore_locals = None

\* no BestEstimator has been constructed
NoBestEstimator ==
    /\ NoArguments /\ stat_type = "mean"
    /\ estimator_types = << >> /\ ncandidate_models = 0 /\ max_nmodels = 0
    /\ best_allow_failures = FALSE /\ nprocs = 1 /\ search_seed = 0
    /\ best_est = None /\ best_model_indices = None
    /\ subsets_tried = << >> /\ best_raised = "none"

\* ----------------------------------------------- partition specification
CountVectors == {n \in [Models -> 0..MaxCount] : n[0] >= 1}

\* ACVEstimator.__init__ with recursion_index=None: _set_recursion_index
\* replaces None by np.zeros(nmodels-1)
DefaultRecursionIndex == [m \in LFModels |-> 0]

InitPart ==
    /\ est_type \in Policies
    /\ recursion_index = DefaultRecursionIndex
    /\ allocation_mat = _create_allocation_matrix(est_type, recursion_index)
    /\ rounded_npartition_samples = None
    /\ values_per_model = None
    /\ acv_values = None
    /\ combined_values = None
    /\ boot_indices = None
    /\ costs = None /\ cov_seed = 0 /\ opt_criteria = "log_trace"
    /\ tree_depth = 0 /\ allow_failures = FALSE
    /\ rounded_nsamples_per_model = None /\ rounded_target_cost = None
    /\ rounded_partition_ratios = None /\ optimized_criteria = None
    /\ optimized_covariance = None /\ optimized_CF = None
    /\ optimized_cf = None /\ optimized_weights = None
    /\ last_op = "init" /\ raised = "none"
    /\ target_cost = 0 /\ solver_seed = 0 /\ solver_runs = 0
    /\ best_result = None /\ best_criteria = None
    /\ sweep_log = << >> /\ call_rows = None /\ est_value = None
    /\ NoBestEstimator

\* ACVEstimator._set_recursion_index with an index of length nmodels-1
SetRecursionIndex ==
    /\ rounded_npartition_samples = None
    /\ \E index \in RecursionIndices :
          /\ allocation_mat' = _create_allocation_matrix(est_type, index)
          /\ recursion_index' = index
    /\ UNCHANGED <<est_type, rounded_npartition_samples, values_per_model,
                   acv_values, combined_values, boot_indices>>
    /\ UNCHANGED allocVars

\* the assignment of the rounded partition counts by
\* CVEstimator._set_optimized_params_base
SetPartitionCounts ==
    /\ rounded_npartition_samples = None
    /\ rounded_npartition_samples' \in CountVectors
    /\ UNCHANGED <<est_type, recursion_index, allocation_mat, values_per_model,
                   acv_values, combined_values, boot_indices>>
    /\ UNCHANGED allocVars

GenerateValues ==
    /\ rounded_npartition_samples # None
    /\ values_per_model = None
    /\ values_per_model' =
          generate_samples_per_model(allocation_mat, rounded_npartition_samples)
    /\ UNCHANGED <<est_type, recursion_index, allocation_mat,
                   rounded_npartition_samples, acv_values, combined_values,
                   boot_indices>>
    /\ UNCHANGED allocVars

SeparateValues ==
    /\ values_per_model # None
    /\ acv_values = None
    /\ boot_indices = None
    /\ ~SeparateRaises(values_per_model,
          _compute_nsamples_per_model(allocation_mat, rounded_npartition_samples))
    /\ acv_values' = _separate_values_per_model(allocation_mat,
          rounded_npartition_samples, values_per_model, FALSE, 0)
    /\ UNCHANGED <<est_type, recursion_index, allocation_mat,
                   rounded_npartition_samples, values_per_model,
                   combined_values, boot_indices>>
    /\ UNCHANGED allocVars

CombineValues ==
    /\ acv_values # None
    /\ combined_values = None
    /\ combined_values' = _combine_acv_values(allocation_mat,
          rounded_npartition_samples, PairUp(acv_values))
    /\ UNCHANGED <<est_type, recursion_index, allocation_mat,
                   rounded_npartition_samples, values_per_model, acv_values,
                   boot_indices>>
    /\ UNCHANGED allocVars

BootstrapIndices ==
    /\ values_per_model # None
    /\ acv_values = None
    /\ boot_indices = None
    /\ \E seed \in 0..MaxSeed :
          boot_indices' = _get_partition_indices_per_acv_subset(
              allocation_mat, rounded_npartition_samples, TRUE, seed)
    /\ UNCHANGED <<est_type, recursion_index, allocation_mat,
                   rounded_npartition_samples, values_per_model, acv_values,
                   combined_values>>
    /\ UNCHANGED allocVars

NextPart == SetRecursionIndex \/ SetPartitionCounts \/ GenerateValues \/ SeparateValues \/ CombineValues \/ BootstrapIndices

SpecPart == InitPart /\ [][NextPart]_vars

\* C1: separating every model's values into its acv subsets and recombining
\* the pairs of subsets gives back every model's value array, row for row.
C1_RoundTrip ==
    combined_values # None => combined_values = values_per_model

C1_Witness ==
    /\ combined_values # None
    /\ est_type = "gmf"
    /\ recursion_index = [m \in LFModels |-> m - 1]
    /\ \A j \in Models : rounded_npartition_samples[j] = MaxCount
    /\ Len(combined_values[NModels-1]) = NModels * MaxCount

\* the models reached from m by following recursion parents, m included
RECURSIVE AncestorsOrSelf(_, _, _)
AncestorsOrSelf(index, m, fuel) ==
    IF m = 0 \/ fuel = 0 THEN {m}
    ELSE {m} \cup AncestorsOrSelf(index, index[m], fuel - 1)

\* C2 (as stated): for every policy and recursion index, the rows active in
\* column 2m+1 are exactly the ancestors-or-self of m.
C2_PlainColumnIsAncestors ==
    \A m \in Models :
        ActiveInColumn(allocation_mat, 2*m+1)
            = AncestorsOrSelf(recursion_index, m, NModels)

\* C2 (amended): column 2m+1 always holds m itself; it is rows 0..m under
\* GMF, {m, parent(m)} under GIS and {m} alone under GRD.
C2_PlainColumnPerPolicy ==
    \A m \in Models :
        ActiveInColumn(allocation_mat, 2*m+1) =
            CASE est_type = "gmf" -> 0..m
              [] est_type = "gis" ->
                    IF m = 0 THEN {0} ELSE {m, recursion_index[m]}
              [] est_type = "grd" -> {m}

C2_Witness ==
    /\ est_type = "gmf"
    /\ recursion_index = [m \in LFModels |-> IF m = NModels - 1 /\ m > 1 THEN 1 ELSE 0]
    /\ ActiveInColumn(allocation_mat, 2*NModels - 1) = Models
    /\ AncestorsOrSelf(recursion_index, NModels - 1, NModels) = {0, 1, NModels - 1}

\* position of partition j's block inside the index array of column c
BlockStart(c, j) ==
    SumOver(rounded_npartition_samples,
            {k \in ActiveInColumn(allocation_mat, c) : k < j})

\* position of partition j's block inside the value array of model ii
ModelBlockStart(ii, j) ==
    SumOver(rounded_npartition_samples,
            {k \in ActivePartitions(allocation_mat, ii) : k < j})

\* the within-partition offsets that column c selects for partition j
BootOffsets(c, j) ==
    [t \in 1..rounded_npartition_samples[j] |->
        boot_indices[c+1][BlockStart(c, j) + t] - ModelBlockStart(c \div 2, j)]

\* C7: in one bootstrap replicate every acv subset that contains partition j
\* selects the same sequence of within-partition offsets for j, one
\* with-replacement resampling of the positions of j.
C7_SharedResampling ==
    boot_indices # None =>
        \A j \in Models :
            LET cs == {c \in Cols : allocation_mat[j][c] = 1}
                n == rounded_npartition_samples[j]
                ref == BootOffsets(CHOOSE c \in cs : TRUE, j)
            IN  \A c \in cs :
                    /\ Len(boot_indices[c+1]) =
                          SumOver(rounded_npartition_samples,
                                  ActiveInColumn(allocation_mat, c))
                    /\ BootOffsets(c, j) = ref
                    /\ \A t \in 1..n : ref[t] \in 0..(n-1)

C7_Witness ==
    /\ boot_indices # None
    /\ \E j \in Models, c1, c2 \in Cols :
          /\ c1 \div 2 # c2 \div 2
          /\ allocation_mat[j][c1] = 1 /\ allocation_mat[j][c2] = 1
          /\ rounded_npartition_samples[j] >= 2
          /\ BootOffsets(c1, j) # Arange(0, rounded_npartition_samples[j])
          /\ ModelBlockStart(c1 \div 2, j) # ModelBlockStart(c2 \div 2, j)

\* ------------------------------------------------------ sample allocation
\* The attributes frozen by allocate_samples, as one record; an attribute
\* that holds a scalar is kept as None or <<value>>.
Frozen ==
    [nps |-> rounded_npartition_samples,
     nsamples |-> rounded_nsamples_per_model,
     cost |-> rounded_target_cost,
     ratios |-> rounded_partition_ratios,
     criteria |-> optimized_criteria,
     covariance |-> optimized_covariance,
     CF |-> optimized_CF, cf |-> optimized_cf, weights |-> optimized_weights]

StoreFrozen(F) ==
    /\ rounded_npartition_samples' = F.nps
    /\ rounded_nsamples_per_model' = F.nsamples
    /\ rounded_target_cost' = F.cost
    /\ rounded_partition_ratios' = F.ratios
    /\ optimized_criteria' = F.criteria
    /\ optimized_covariance' = F.covariance
    /\ optimized_CF' = F.CF
    /\ optimized_cf' = F.cf
    /\ optimized_weights' = F.weights

\* CVEstimator._set_optimized_params_base: the assignments in source order,
\* the criterion may raise after the first four
AssignOptimized(F, mat, nps, nsamples, cost, cov, crit) ==
    LET d == _get_discrepancy_covariances(est_type, mat, nps)
        F1 == [F EXCEPT !.nps = nps, !.nsamples = nsamples,
                        !.cost = <<cost>>, !.covariance = cov]
    IN  IF crit.raises THEN [raised |-> "RuntimeError", F |-> F1]
        ELSE [raised |-> "none",
              F |-> [F1 EXCEPT !.criteria = <<crit.value>>,
                               !.CF = d.CF, !.cf = d.cf,
                               !.weights = _weights(est_type, d.CF, d.cf)]]

_set_optimized_params_base(F, mat, nps, nsamples, cost) ==
    Only({ Only({ AssignOptimized(F, mat, nps, nsamples, cost, cov, crit) :
                  crit \in {_optimization_criteria(
                                opt_criteria, cov_seed, mat, nps, cov)} }) :
           cov \in {_covariance_from_npartition_samples(est_type, mat, nps)} })

\* the count MCEstimator.allocate_samples freezes
MCSampleCount(c, target) == FloorDiv(target, c[0])

\* MCEstimator.allocate_samples
MCAllocate(F, target) ==
    Only({ LET cov == _covariance_from_npartition_samples("mc", None, n)
               crit == _optimization_criteria(opt_criteria, cov_seed, None, n, cov)
               F1 == [F EXCEPT !.nsamples = n, !.nps = n, !.covariance = cov]
           IN  IF crit.raises THEN [raised |-> "RuntimeError", F |-> F1]
               ELSE [raised |-> "none",
                     F |-> [F1 EXCEPT !.cost = <<costs[0] * n[0]>>,
                                      !.criteria = <<crit.value>>]] :
           n \in {(0 :> MCSampleCount(costs, target))} })

\* CVEstimator.allocate_samples for a statistic that is a mean
min_nhf_samples == 1

CVAllocate(F, target) ==
    Only({ LET rounded == (0 :> n)
               nsamples == [m \in Models |-> n]
               weighted == [m \in Models |-> costs[m] * n]
           IN  IF n < min_nhf_samples THEN [raised |-> "ValueError", F |-> F]
               ELSE _set_optimized_params_base(F, None, rounded, nsamples,
                                               SumOver(weighted, Models)) :
           n \in {FloorDiv(target, SumCosts(costs))} })

\* ACVEstimator._set_optimized_params
RoundedCounts(mat, rr) ==
    Only({ Tabulate([j \in Models |-> RoundHalfEven(exact[j])], Models) :
           exact \in {_npartition_samples_from_partition_ratios(
                          mat, costs, rr.cost, rr.ratios)} })

_set_optimized_params(F, mat, pr, target) ==
    Only({ IF rr.raises THEN [raised |-> "RuntimeError", F |-> F]
           ELSE Only({ _set_optimized_params_base(
                           [F EXCEPT !.ratios = <<rr.ratios>>], mat, nps,
                           _compute_nsamples_per_model(mat, nps), rr.cost) :
                       nps \in {RoundedCounts(mat, rr)} }) :
           rr \in {_round_partition_ratios(mat, costs, target, pr)} })

\* ------------------------------------------------------------ the solver
\* scipy's minimize is a deterministic function of its inputs.  Its result
\* for the k-th index it is asked about is read off the digits of seed:
\* 0 is opt.success = False, d > 0 is success with opt.x = SolverAnswers[d].
SolverAnswers ==
    << [num |-> [m \in LFModels |-> 1], den |-> 1],
       [num |-> [m \in LFModels |-> m + 2], den |-> 2] >>

SolverBase == Len(SolverAnswers) + 1

SolverDigit(seed, k) == (seed \div (SolverBase ^ ((k - 1) % 2))) % SolverBase

minimize(seed, k) ==
    LET d == SolverDigit(seed, k)
    IN  [success |-> d # 0, x |-> SolverAnswers[IF d = 0 THEN 1 ELSE d]]

\* a test that never finds the target too small
TargetTooSmall_untested(c, target) == FALSE

\* the test of _allocate_samples_opt_minimize made before minimize is called
TargetTooSmall(c, target) == target < SumCosts(c)

\* _allocate_samples_opt without the test of opt.success
_allocate_samples_opt_unchecked(target, seed, k) ==
    Only({ IF TargetTooSmall(costs, target)
           THEN [raised |-> "ValueError", runs |-> 0, x |-> opt.x, finite |-> FALSE]
           ELSE [raised |-> "none", runs |-> 1, x |-> opt.x, finite |-> TRUE] :
           opt \in {minimize(seed, k)} })

\* ACVEstimator._allocate_samples_opt with _allocate_samples_opt_minimize
_allocate_samples_opt(target, seed, k) ==
    Only({ IF TargetTooSmall(costs, target)
           THEN [raised |-> "ValueError", runs |-> 0, x |-> opt.x, finite |-> FALSE]
           ELSE IF ~opt.success
           THEN [raised |-> "RuntimeError", runs |-> 1, x |-> opt.x, finite |-> FALSE]
           ELSE [raised |-> "none", runs |-> 1, x |-> opt.x, finite |-> TRUE] :
           opt \in {minimize(seed, k)} })

\* ACVEstimator._allocate_samples_user_init_guess: one call outside the try
\* block, then the same call inside it
_allocate_samples_user_init_guess(target, seed, k) ==
    Only({ IF first.raised # "none" THEN first
           ELSE Only({ IF second.raised = "RuntimeError"
                       THEN [second EXCEPT !.raised = "none",
                                           !.runs = first.runs + second.runs]
                       ELSE [second EXCEPT !.runs = first.runs + second.runs] :
                       second \in {_allocate_samples_opt(target, seed, k)} }) :
           first \in {_allocate_samples_opt(target, seed, k)} })

\* _optim._allocate_samples_mfmc / _allocate_samples_mlmc: closed-form
\* sample ratios, a fixed function of the covariance and the costs
ClosedFormRatios == [m \in LFModels |-> 1 + m * (1 + cov_seed)]

\* MFMCEstimator._native_ratios_to_npartition_ratios
_native_ratios_to_npartition_ratios(ratios) ==
    [m \in LFModels |-> IF m = 1 THEN ratios[1] - 1 ELSE ratios[m] - ratios[m-1]]

\* ACVEstimator._allocate_samples and its overrides in MFMC and MLMC
_allocate_samples(target, seed, k) ==
    CASE est_type = "mfmc" ->
           [raised |-> "none", runs |-> 0, finite |-> TRUE,
            x |-> [num |-> _native_ratios_to_npartition_ratios(ClosedFormRatios),
                   den |-> 1]]
      [] est_type = "mlmc" ->
           [raised |-> "none", runs |-> 0, finite |-> TRUE,
            x |-> [num |-> ClosedFormRatios, den |-> 1]]
      [] OTHER ->
           Only({ IF opt.raised = "none" /\ ~opt.finite
                  THEN [opt EXCEPT !.raised = "RuntimeError"]
                  ELSE opt :
                  opt \in {_allocate_samples_user_init_guess(target, seed, k)} })

\* ACVEstimator._allocate_samples_for_single_recursion
_allocate_samples_for_single_recursion(F, mat, target, seed, k) ==
    Only({ IF a.raised # "none"
           THEN [raised |-> a.raised, runs |-> a.runs, F |-> F]
           ELSE Only({ [raised |-> p.raised, runs |-> a.runs, F |-> p.F] :
                       p \in {_set_optimized_params(F, mat, a.x, target)} }) :
           a \in {_allocate_samples(target, seed, k)} })

\* ------------------------------------------------- recursion-index sweep
\* number of parent steps from model m to model 0, NModels if 0 is not reached
RECURSIVE DepthOf(_, _, _)
DepthOf(index, m, fuel) ==
    IF m = 0 THEN 0
    ELSE IF fuel = 0 THEN NModels
    ELSE 1 + DepthOf(index, index[m], fuel - 1)

\* the indices that describe a tree rooted at model 0 of depth <= depth
TreeIndices(depth) ==
    {index \in RecursionIndices :
        \A m \in LFModels : DepthOf(index, m, NModels) <= depth}

\* position of an index in lexicographic order
LexRank(index) ==
    SumOver([m \in LFModels |-> index[m] * NModels ^ (NModels - 1 - m)], LFModels)

RECURSIVE SortByRank(_)
SortByRank(S) ==
    IF S = {} THEN << >>
    ELSE LET x == CHOOSE x \in S : \A y \in S : LexRank(x) <= LexRank(y)
         IN  <<x>> \o SortByRank(S \ {x})

\* _optim._get_acv_recursion_indices(nmodels, depth)
_get_acv_recursion_indices(depth) == SortByRank(TreeIndices(depth))

\* the comparison with <= in place of <, for finite criteria
IsBetter_or_equal(criteria, best) == criteria < CritInf /\ criteria <= best

\* the comparison that replaces the best result of the sweep
IsBetter(criteria, best) == criteria < best

\* the body of the loop of _allocate_samples_for_all_recursion_indices for
\* the k-th index; st holds the estimator attributes and the loop's locals
SweepStep(st, index, mat, r) ==
    LET caught == r.raised = "RuntimeError" /\ allow_failures
        F2 == IF caught THEN [r.F EXCEPT !.criteria = <<CritInf>>] ELSE r.F
        crit == F2.criteria[1]
        better == IsBetter(crit, st.best_criteria)
        entry == [index |-> index, criteria |-> crit, failed |-> caught]
        st1 == [st EXCEPT !.index = index, !.mat = mat, !.runs = st.runs + r.runs]
    IN  IF r.raised # "none" /\ ~caught
        THEN [st1 EXCEPT !.F = r.F, !.raised = r.raised]
        ELSE [st1 EXCEPT
                !.F = F2,
                !.log = Append(st.log, entry),
                !.best_result =
                    IF better
                    THEN <<[ratios |-> F2.ratios[1], cost |-> F2.cost,
                            criteria |-> crit, index |-> index]>>
                    ELSE st.best_result,
                !.best_criteria = IF better THEN crit ELSE st.best_criteria]

SweepBody(k, st, indices, target, seed) ==
    Only({ Only({ SweepStep(st, indices[k], mat, r) :
                  r \in {_allocate_samples_for_single_recursion(
                             st.F, mat, target, seed, k)} }) :
           mat \in {CreateAllocationMatrix(est_type, indices[k])} })

RECURSIVE SweepLoop(_, _, _, _, _)
SweepLoop(k, st, indices, target, seed) ==
    IF k > Len(indices) \/ st.raised # "none" THEN st
    ELSE Only({ SweepLoop(k + 1, next, indices, target, seed) :
                next \in {SweepBody(k, st, indices, target, seed)} })

\* the statements after the loop without the call of _set_recursion_index
SweepFinish_index_kept(st, target) ==
    LET best == st.best_result[1]
        mat == CreateAllocationMatrix(est_type, best.index)
    IN  IF st.raised # "none" THEN st
        ELSE IF st.best_result = None THEN [st EXCEPT !.raised = "RuntimeError"]
        ELSE Only({ [st EXCEPT !.F = p.F, !.raised = p.raised] :
                    p \in {_set_optimized_params(
                               st.F, mat, best.ratios, target)} })

\* the statements of _allocate_samples_for_all_recursion_indices after the loop
SweepFinish(st, target) ==
    LET best == st.best_result[1]
        mat == CreateAllocationMatrix(est_type, best.index)
    IN  IF st.raised # "none" THEN st
        ELSE IF st.best_result = None THEN [st EXCEPT !.raised = "RuntimeError"]
        ELSE Only({ [st EXCEPT !.index = best.index, !.mat = mat,
                               !.F = p.F, !.raised = p.raised] :
                    p \in {_set_optimized_params(
                               st.F, mat, best.ratios, target)} })

\* ACVEstimator._allocate_samples_for_all_recursion_indices
_allocate_samples_for_all_recursion_indices(indices, target, seed) ==
    LET st0 == [F |-> Frozen, index |-> recursion_index, mat |-> allocation_mat,
                runs |-> 0, raised |-> "none", log |-> << >>,
                best_result |-> None, best_criteria |-> CritInf]
    IN  Only({ SweepFinish(st, target) :
               st \in {SweepLoop(1, st0, indices, target, seed)} })

\* --------------------------------------------------- estimator life cycle
TargetCosts == {TargetStep * k + 1 : k \in 0..MaxTargetSteps}

\* the recursion indices an estimator is constructed with
InitIndices == TreeIndices(NModels - 1)

\* construction of an estimator: MCEstimator, CVEstimator, GMF/GIS/GRD with
\* a recursion index or with tree_depth (0 stands for tree_depth=None),
\* MFMCEstimator and MLMCEstimator
Init ==
    /\ est_type \in AllTypes
    /\ costs = ModelCosts
    /\ cov_seed \in 0..MaxCovSeed
    /\ opt_criteria \in
          (IF est_type = "mc" THEN {"log_trace", "determinant"} ELSE {"log_trace"})
    /\ tree_depth \in (IF est_type \in Policies THEN 0..(NModels-1) ELSE {0})
    /\ allow_failures \in (IF tree_depth > 0 THEN BOOLEAN ELSE {FALSE})
    /\ recursion_index \in
          (CASE est_type \in {"mc", "cv"} -> {None}
             [] est_type \in {"mfmc", "mlmc"} -> {ChainRecursionIndex}
             [] OTHER -> IF tree_depth > 0 THEN {None} ELSE InitIndices)
    /\ allocation_mat =
          (IF recursion_index = None THEN None
           ELSE CreateAllocationMatrix(est_type, recursion_index))
    /\ rounded_npartition_samples = None
    /\ rounded_nsamples_per_model = None /\ rounded_target_cost = None
    /\ rounded_partition_ratios = None /\ optimized_criteria = None
    /\ optimized_covariance = None /\ optimized_CF = None
    /\ optimized_cf = None /\ optimized_weights = None
    /\ last_op = "init" /\ raised = "none"
    /\ target_cost = 0 /\ solver_seed = 0 /\ solver_runs = 0
    /\ best_result = None /\ best_criteria = None /\ sweep_log = << >>
    /\ call_rows = None /\ est_value = None
    /\ values_per_model = None /\ acv_values = None
    /\ combined_values = None /\ boot_indices = None
    /\ NoBestEstimator

\* allocate_samples is called on a new estimator
MayAllocate == last_op = "init"

\* MCEstimator.allocate_samples(target_cost)
MCAllocateSamples ==
    /\ est_type = "mc" /\ MayAllocate
    /\ \E target \in TargetCosts :
          \E r \in {MCAllocate(Frozen, target)} :
              /\ StoreFrozen(r.F)
              /\ raised' = r.raised
              /\ target_cost' = target
    /\ last_op' = "allocate"
    /\ UNCHANGED <<objVars, cfgVars, solver_seed, solver_runs, sweepVars,
                   evalVars, dataVars, bestVars>>

\* CVEstimator.allocate_samples(target_cost)
CVAllocateSamples ==
    /\ est_type = "cv" /\ MayAllocate
    /\ \E target \in TargetCosts :
          \E r \in {CVAllocate(Frozen, target)} :
              /\ StoreFrozen(r.F)
              /\ raised' = r.raised
              /\ target_cost' = target
    /\ last_op' = "allocate"
    /\ UNCHANGED <<objVars, cfgVars, solver_seed, solver_runs, sweepVars,
                   evalVars, dataVars, bestVars>>

\* ACVEstimator.allocate_samples(target_cost) with tree_depth None
ACVAllocateSamples ==
    /\ est_type \in ACVTypes /\ tree_depth = 0 /\ MayAllocate
    /\ \E target \in TargetCosts, seed \in 0..(SolverBase - 1) :
          \E r \in {_allocate_samples_for_single_recursion(
                        Frozen, allocation_mat, target, seed, 1)} :
              /\ StoreFrozen(r.F)
              /\ raised' = r.raised
              /\ solver_runs' = r.runs
              /\ target_cost' = target
              /\ solver_seed' = seed
    /\ last_op' = "allocate"
    /\ UNCHANGED <<objVars, cfgVars, sweepVars, evalVars, dataVars, bestVars>>

\* ACVEstimator.allocate_samples(target_cost) with tree_depth set
ACVAllocateSamplesSweep ==
    /\ est_type \in ACVTypes /\ tree_depth > 0 /\ MayAllocate
    /\ \E indices \in {_get_acv_recursion_indices(tree_depth)} :
       \E target \in TargetCosts, seed \in 0..MaxSolverSeed :
          \E st \in {_allocate_samples_for_all_recursion_indices(
                        indices, target, seed)} :
              /\ StoreFrozen(st.F)
              /\ recursion_index' = st.index
              /\ allocation_mat' = st.mat
              /\ raised' = st.raised
              /\ solver_runs' = st.runs
              /\ best_result' = st.best_result
              /\ best_criteria' = <<st.best_criteria>>
              /\ sweep_log' = st.log
              /\ target_cost' = target
              /\ solver_seed' = seed
    /\ last_op' = "allocate"
    /\ UNCHANGED <<est_type, cfgVars, evalVars, dataVars, bestVars>>

\* the row counts of the value arrays handed to __call__: the allocated
\* counts, all shifted alike or one of them shifted
RowInputs(base) ==
    LET deltas == (0 - MaxRowDelta)..MaxRowDelta
        shifted == {[m \in DOMAIN base |-> base[m] + d] : d \in deltas}
        single == {[base EXCEPT ![m] = base[m] + d] :
                       m \in DOMAIN base, d \in deltas}
    IN  {rows \in shifted \cup single : \A m \in DOMAIN rows : rows[m] >= 0}

\* the test of MCEstimator.__call__
MCCallRaises(rows) == rows[0] # rounded_nsamples_per_model[0]

\* MCEstimator.__call__(values)
MCCall ==
    /\ est_type = "mc" /\ last_op = "allocate"
    /\ \E rows \in RowInputs(rounded_nsamples_per_model) :
          /\ call_rows' = rows
          /\ raised' = IF MCCallRaises(rows) THEN "ValueError" ELSE "none"
          /\ est_value' = IF MCCallRaises(rows) THEN None
                          ELSE <<"sample_estimate", rows>>
    /\ last_op' = "call"
    /\ UNCHANGED <<objVars, rounded_npartition_samples, cfgVars, frozenVars,
                   target_cost, solver_seed, solver_runs, sweepVars, dataVars, bestVars>>

\* the tests of CVEstimator._estimate
CVEstimateRaises(rows) ==
    \/ DOMAIN rows # Models
    \/ \E m \in LFModels : rows[m] # rows[0]

\* CVEstimator.__call__(values_per_model)
CVCall ==
    /\ est_type = "cv" /\ last_op = "allocate"
    /\ rounded_nsamples_per_model # None
    /\ \E rows \in RowInputs(rounded_nsamples_per_model) :
          /\ call_rows' = rows
          /\ raised' = IF CVEstimateRaises(rows) THEN "ValueError" ELSE "none"
          /\ est_value' = IF CVEstimateRaises(rows) THEN None
                          ELSE <<"cv_estimate", rows, optimized_weights>>
    /\ last_op' = "call"
    /\ UNCHANGED <<objVars, rounded_npartition_samples, cfgVars, frozenVars,
                   target_cost, solver_seed, solver_runs, sweepVars, dataVars, bestVars>>

\* the tests of ACVEstimator._separate_values_per_model on row counts
ACVSeparateRaises(rows) ==
    \/ DOMAIN rows # Models
    \/ \E ii \in Models : rows[ii] # rounded_nsamples_per_model[ii]

\* allocate_samples has been called, and any number of calls after it
AfterAllocate == last_op \in {"allocate", "call", "generate", "bootstrap"}

\* ACVEstimator.__call__(values_per_model)
ACVCall ==
    /\ est_type \in ACVTypes /\ AfterAllocate
    /\ rounded_nsamples_per_model # None
    /\ \E rows \in RowInputs(rounded_nsamples_per_model) :
          /\ call_rows' = rows
          /\ raised' = IF ACVSeparateRaises(rows) THEN "ValueError" ELSE "none"
          /\ est_value' = IF ACVSeparateRaises(rows) THEN None
                          ELSE <<"acv_estimate", rows, optimized_weights>>
    /\ last_op' = "call"
    /\ UNCHANGED <<objVars, rounded_npartition_samples, cfgVars, frozenVars,
                   target_cost, solver_seed, solver_runs, sweepVars, dataVars, bestVars>>

\* rounded_npartition_samples[0] -= npilot_samples on the local array
PilotReduced(nps, npilot) == [nps EXCEPT ![0] = nps[0] - npilot]

\* the estimator's array when the local array is the same object
AfterClone_aliased(own, local) == local

\* self._rounded_npartition_samples after the local array, made by
\* self._rounded_npartition_samples.clone(), has been changed
AfterClone(own, local) == own

\* ACVEstimator.generate_samples_per_model(rvs, npilot_samples): the result
\* is the number of samples drawn for each model
ACVGenerateSamples ==
    /\ est_type \in ACVTypes /\ AfterAllocate
    /\ rounded_nsamples_per_model # None
    /\ \E npilot \in 0..MaxPilot :
        \E local \in {PilotReduced(rounded_npartition_samples, npilot)} :
          /\ raised' = IF npilot > rounded_npartition_samples[0]
                       THEN "ValueError" ELSE "none"
          /\ est_value' =
                IF npilot > rounded_npartition_samples[0] THEN None
                ELSE <<"samples", npilot,
                       _compute_nsamples_per_model(allocation_mat, local)>>
          /\ rounded_npartition_samples' =
                IF npilot > rounded_npartition_samples[0]
                THEN rounded_npartition_samples
                ELSE AfterClone(rounded_npartition_samples, local)
    /\ call_rows' = None
    /\ last_op' = "generate"
    /\ UNCHANGED <<objVars, cfgVars, frozenVars, target_cost, solver_seed,
                   solver_runs, sweepVars, dataVars, bestVars>>

\* ACVEstimator.bootstrap(values_per_model, nbootstraps): one pass of its
\* loop, _estimate(values_per_model, weights, bootstrap=True)
ACVBootstrap ==
    /\ est_type \in ACVTypes /\ AfterAllocate
    /\ rounded_nsamples_per_model # None
    /\ \E rows \in {rounded_nsamples_per_model,
                     [m \in Models |-> rounded_nsamples_per_model[m] + 1]},
          seed \in 0..MaxSeed :
          /\ call_rows' = rows
          /\ raised' = IF ACVSeparateRaises(rows) THEN "ValueError" ELSE "none"
          /\ est_value' =
                IF ACVSeparateRaises(rows) THEN None
                ELSE <<"bootstrap", optimized_weights,
                       _get_partition_indices_per_acv_subset(
                           allocation_mat, rounded_npartition_samples,
                           TRUE, seed)>>
    /\ last_op' = "bootstrap"
    /\ UNCHANGED <<objVars, rounded_npartition_samples, cfgVars, frozenVars,
                   target_cost, solver_seed, solver_runs, sweepVars, dataVars,
                   bestVars>>

Next ==
    \/ MCAllocateSamples \/ CVAllocateSamples
    \/ ACVAllocateSamples \/ ACVAllocateSamplesSweep
    \/ MCCall \/ CVCall \/ ACVCall
    \/ ACVGenerateSamples \/ ACVBootstrap

Spec == Init /\ [][Next]_vars

\* ------------------------------------------------------ best-subset search
\* the smallest element of a non-empty set of integers
MinOf(S) == CHOOSE x \in S : \A y \in S : x <= y

\* the elements of a set of integers in increasing order
RECURSIVE SortedSeq(_)
SortedSeq(S) == IF S = {} THEN << >> ELSE <<MinOf(S)>> \o SortedSeq(S \ {MinOf(S)})

\* sets of equal size in the order of their sorted tuples
RECURSIVE OrderSubsets(_)
OrderSubsets(SS) ==
    IF SS = {} THEN << >>
    ELSE LET a == CHOOSE a \in SS :
                    \A b \in SS \ {a} : MinOf((a \ b) \cup (b \ a)) \in a
         IN  <<a>> \o OrderSubsets(SS \ {a})

\* list(combinations(self._lf_model_indices, nsubset_lfmodels))
combinations(nsubset_lfmodels) ==
    OrderSubsets({ss \in SUBSET (1..(ncandidate_models - 1)) :
                     Cardinality(ss) = nsubset_lfmodels})

\* np.hstack(([0], lf_model_subset_indices))
SubsetIdx(lf_model_subset_indices) == <<0>> \o SortedSeq(lf_model_subset_indices)

\* the keys of multioutput_estimators and of multioutput_stats
multioutput_estimators == {"cv", "gmf", "gis", "grd", "mfmc", "mlmc", "mc"}
multioutput_stats == {"mean", "variance", "mean_variance"}

\* What constructing and allocating the estimator of kind number p on the
\* models idx does is an input of the search: 0 is a ValueError of
\* get_estimator, 1 a RuntimeError of allocate_samples, h >= 2 an allocation
\* with criterion h - 2.
SubsetOutcome(idx, p) ==
    (3 * search_seed + SumOver(idx, DOMAIN idx) + 2 * Len(idx) + p) % OutcomeModulus

\* _get_estimator returning None for every failed allocation
_get_estimator_discarding(idx, p) ==
    LET h == SubsetOutcome(idx, p)
    IN  IF estimator_types[p] \notin multioutput_estimators \/ h <= 1
        THEN [raised |-> "none", est |-> None]
        ELSE [raised |-> "none",
              est |-> <<[type |-> estimator_types[p], criteria |-> h - 2,
                         idx |-> idx]>>]

\* BestEstimator._get_estimator
_get_estimator(idx, p) ==
    LET h == SubsetOutcome(idx, p)
    IN  IF estimator_types[p] \notin multioutput_estimators \/ h = 0
        THEN [raised |-> "none", est |-> None]
        ELSE IF h = 1
        THEN [raised |-> IF best_allow_failures THEN "none" ELSE "RuntimeError",
              est |-> None]
        ELSE [raised |-> "none",
              est |-> <<[type |-> estimator_types[p], criteria |-> h - 2,
                         idx |-> idx]>>]

\* the loop of BestEstimator._get_model_subset_estimator over the estimator
\* types; acc is [raised, est, criteria]
RECURSIVE TypeLoop(_, _, _)
TypeLoop(p, idx, acc) ==
    IF p > Len(estimator_types) \/ acc.raised # "none" THEN acc
    ELSE Only({ TypeLoop(p + 1, idx, next) :
                next \in {LET r == _get_estimator(idx, p)
                              better == r.est # None
                                          /\ r.est[1].criteria < acc.criteria
                          IN  IF r.raised # "none"
                              THEN [acc EXCEPT !.raised = r.raised]
                              ELSE IF better
                              THEN [acc EXCEPT !.est = r.est,
                                               !.criteria = r.est[1].criteria]
                              ELSE acc} })

\* the largest criterion of an allocation, plus one: np.inf
BestInf == OutcomeModulus

\* BestEstimator._get_model_subset_estimator
_get_model_subset_estimator(lf_model_subset_indices) ==
    IF stat_type \notin multioutput_stats
    THEN [raised |-> "KeyError", est |-> None, criteria |-> BestInf]
    ELSE TypeLoop(1, SubsetIdx(lf_model_subset_indices),
                  [raised |-> "none", est |-> None, criteria |-> BestInf])

\* the loop of _get_best_model_subset_for_estimator_serial; st is
\* [best_criteria, best_model_indices, best_est, raised, tried]
RECURSIVE SerialLoop(_, _, _)
SerialLoop(k, combos, st) ==
    IF k > Len(combos) \/ st.raised # "none" THEN st
    ELSE Only({ SerialLoop(k + 1, combos,
                    LET st1 == [st EXCEPT !.tried = Append(st.tried, combos[k])]
                        better == r.est # None
                                    /\ r.est[1].criteria < st.best_criteria
                    IN  IF r.raised # "none" THEN [st1 EXCEPT !.raised = r.raised]
                        ELSE IF better
                        THEN [st1 EXCEPT
                                 !.best_est = r.est,
                                 !.best_model_indices = SubsetIdx(combos[k]),
                                 !.best_criteria = r.est[1].criteria]
                        ELSE st1) :
                r \in {_get_model_subset_estimator(combos[k])} })

\* BestEstimator._get_best_model_subset_for_estimator_serial
_get_best_model_subset_for_estimator_serial(nsubset_lfmodels, st) ==
    SerialLoop(1, combinations(nsubset_lfmodels), st)

\* BestEstimator._get_best_model_subset_for_estimator_pool: every subset is
\* mapped, an exception of a worker is raised by pool.map, np.argmin takes
\* the first smallest criterion
_get_best_model_subset_for_estimator_pool(nsubset_lfmodels, st) ==
    LET indices == combinations(nsubset_lfmodels)
        ks == 1..Len(indices)
        result == Tabulate([k \in ks |->
                              _get_model_subset_estimator(indices[k])], ks)
        criteria == [k \in ks |-> result[k].criteria]
        errors == {k \in ks : result[k].raised # "none"}
        II == CHOOSE k \in ks :
                  /\ \A q \in ks : criteria[k] <= criteria[q]
                  /\ \A q \in 1..(k-1) : criteria[q] > criteria[k]
        st1 == [st EXCEPT !.tried = st.tried \o indices]
    IN  IF errors # {}
        THEN [st1 EXCEPT !.raised = result[MinOf(errors)].raised]
        ELSE IF criteria[II] = BestInf THEN [st1 EXCEPT !.best_est = None]
        ELSE [st1 EXCEPT !.best_est = result[II].est,
                         !.best_model_indices = SubsetIdx(indices[II]),
                         !.best_criteria = criteria[II]]

\* range(min_nlfmodels, max_nmodels) of BestEstimator._get_best_estimator;
\* max_nmodels = 0 stands for None
SubsetSizes ==
    LET min_nlfmodels == IF max_nmodels = 0 THEN ncandidate_models - 1 ELSE 1
        max_nmodels_used == ncandidate_models
    IN  min_nlfmodels..(max_nmodels_used - 1)

\* the loop of _get_best_estimator over the subset sizes
RECURSIVE SizeLoop(_, _, _, _)
SizeLoop(n, last, st, procs) ==
    IF n > last \/ st.raised # "none" THEN st
    ELSE Only({ SizeLoop(n + 1, last, next, procs) :
                next \in {IF procs > 1
                          THEN _get_best_model_subset_for_estimator_pool(n, st)
                          ELSE _get_best_model_subset_for_estimator_serial(n, st)} })

\* BestEstimator._get_best_estimator; procs is allocate_kwargs["nprocs"]
_get_best_estimator(procs) ==
    LET st0 == [best_criteria |-> BestInf, best_model_indices |-> None,
                best_est |-> None, raised |-> "none", tried |-> << >>]
    IN  Only({ IF st.raised = "none" /\ st.best_est = None
               THEN [st EXCEPT !.raised = "RuntimeError"]
               ELSE st :
               st \in {IF SubsetSizes = {} THEN st0
                       ELSE SizeLoop(MinOf(SubsetSizes),
                                     MinOf(SubsetSizes)
                                       + Cardinality(SubsetSizes) - 1,
                                     st0, procs)} })

\* the lists of estimator types a BestEstimator is given
EstimatorTypeLists == {<<"gmf">>, <<"gmf", "mfmc">>, <<"grd", "gis", "mlmc">>}

\* get_estimator(estimator_types, ..., max_nmodels=...) returning a
\* BestEstimator, and the inputs of its search
InitBest ==
    /\ estimator_types \in EstimatorTypeLists
    /\ ncandidate_models \in 2..MaxCandidates
    /\ max_nmodels \in {0} \cup 2..ncandidate_models
    /\ best_allow_failures \in BOOLEAN
    /\ nprocs \in {1, 2}
    /\ search_seed \in 0..MaxSearchSeed
    /\ stat_type = "mean" /\ NoArguments
    /\ best_est = None /\ best_model_indices = None
    /\ subsets_tried = << >> /\ best_raised = "none"
    /\ est_type = "mc" /\ recursion_index = None /\ allocation_mat = None
    /\ costs = None /\ cov_seed = 0 /\ opt_criteria = "log_trace"
    /\ tree_depth = 0 /\ allow_failures = FALSE
    /\ rounded_npartition_samples = None
    /\ rounded_nsamples_per_model = None /\ rounded_target_cost = None
    /\ rounded_partition_ratios = None /\ optimized_criteria = None
    /\ optimized_covariance = None /\ optimized_CF = None
    /\ optimized_cf = None /\ optimized_weights = None
    /\ last_op = "init" /\ raised = "none"
    /\ target_cost = 0 /\ solver_seed = 0 /\ solver_runs = 0
    /\ best_result = None /\ best_criteria = None /\ sweep_log = << >>
    /\ call_rows = None /\ est_value = None
    /\ values_per_model = None /\ acv_values = None
    /\ combined_values = None /\ boot_indices = None

\* BestEstimator.allocate_samples(target_cost)
BestAllocateSamples ==
    /\ ncandidate_models > 0 /\ last_op = "init"
    /\ \E st \in {_get_best_estimator(nprocs)} :
           /\ best_raised' = st.raised
           /\ subsets_tried' = st.tried
           /\ best_est' = IF st.raised = "none" THEN st.best_est ELSE best_est
           /\ best_model_indices' =
                 IF st.raised = "none" THEN st.best_model_indices
                 ELSE best_model_indices
    /\ last_op' = "allocate"
    /\ UNCHANGED <<objVars, rounded_npartition_samples, cfgVars, frozenVars,
                   raised, target_cost, solver_seed, solver_runs, sweepVars,
                   evalVars, dataVars, estimator_types, ncandidate_models,
                   max_nmodels, best_allow_failures, nprocs, search_seed,
                   stat_type, argVars>>

NextBest == BestAllocateSamples

SpecBest == InitBest /\ [][NextBest]_vars

\* C10 (as stated): with max_nmodels given, the search tries low-fidelity
\* subsets of 1 to max_nmodels-1 models only, and the subset it selects,
\* high-fidelity model included, has at most max_nmodels models.
C10_SubsetWithinMaxModels ==
    (last_op = "allocate" /\ max_nmodels > 0) =>
        /\ \A k \in 1..Len(subsets_tried) :
              Cardinality(subsets_tried[k]) \in 1..(max_nmodels - 1)
        /\ Len(best_model_indices) <= max_nmodels

\* ------------------------------------------- setting the recursion index
\* a column index numpy rejects with IndexError
IndexOutOfBounds(index) ==
    \E m \in LFModels :
        2*index[m] + 1 >= 2*NModels \/ 2*index[m] + 1 < 0 - 2*NModels

\* _set_recursion_index that stores the index before it tests its length
_set_recursion_index_stored_first(type, index) ==
    IF Len(index) # NModels - 1
    THEN [raised |-> "ValueError", stored |-> TRUE, index |-> index, mat |-> None]
    ELSE IF IndexOutOfBounds(index)
    THEN [raised |-> "IndexError", stored |-> FALSE, index |-> index, mat |-> None]
    ELSE [raised |-> "none", stored |-> TRUE, index |-> index,
          mat |-> _create_allocation_matrix(type, index)]

\* ACVEstimator._set_recursion_index(index) for an index that is not None:
\* what it raises and whether it assigns _allocation_mat and
\* _recursion_index
_set_recursion_index(type, index) ==
    IF Len(index) # NModels - 1
    THEN [raised |-> "ValueError", stored |-> FALSE, index |-> index, mat |-> None]
    ELSE IF IndexOutOfBounds(index)
    THEN [raised |-> "IndexError", stored |-> FALSE, index |-> index, mat |-> None]
    ELSE [raised |-> "none", stored |-> TRUE, index |-> index,
          mat |-> _create_allocation_matrix(type, index)]

\* index arguments: lists of nmodels-2 to nmodels entries from -1 to nmodels
IndexArgs ==
    UNION {[1..len -> (0 - 1)..NModels] : len \in (NModels - 2)..NModels}

\* the recursion_index arguments of the constructor
ConstructIndexArgs ==
    {None, DefaultRecursionIndex, ChainRecursionIndex,
     [m \in LFModels |-> m], [m \in 1..NModels |-> 0]}

\* before GMFEstimator, GISEstimator or GRDEstimator is constructed
InitIndex ==
    /\ est_type \in Policies
    /\ last_op = "new" /\ raised = "none"
    /\ recursion_index = None /\ allocation_mat = None
    /\ costs = None /\ cov_seed = 0 /\ opt_criteria = "log_trace"
    /\ tree_depth = 0 /\ allow_failures = FALSE
    /\ rounded_npartition_samples = None
    /\ rounded_nsamples_per_model = None /\ rounded_target_cost = None
    /\ rounded_partition_ratios = None /\ optimized_criteria = None
    /\ optimized_covariance = None /\ optimized_CF = None
    /\ optimized_cf = None /\ optimized_weights = None
    /\ target_cost = 0 /\ solver_seed = 0 /\ solver_runs = 0
    /\ best_result = None /\ best_criteria = None /\ sweep_log = << >>
    /\ call_rows = None /\ est_value = None
    /\ values_per_model = None /\ acv_values = None
    /\ combined_values = None /\ boot_indices = None
    /\ NoBestEstimator

\* ACVEstimator.__init__(stat, costs, cov, recursion_index=..., tree_depth=...,
\* allow_failures=...); tree_depth 0 stands for None
ACVConstruct ==
    /\ last_op = "new"
    /\ \E ri \in ConstructIndexArgs, td \in 0..(NModels - 1), af \in BOOLEAN :
        \E r \in {_set_recursion_index(
                      est_type, IF ri = None THEN DefaultRecursionIndex ELSE ri)} :
          /\ get_args' = [recursion_index |-> ri, tree_depth |-> td,
                          allow_failures |-> af]
          /\ costs' = ModelCosts
          /\ IF td # 0 /\ ri # None
             THEN /\ raised' = "ValueError" /\ last_op' = "construct_failed"
                  /\ UNCHANGED <<recursion_index, allocation_mat, tree_depth,
                                 allow_failures>>
             ELSE IF td = 0 /\ r.raised # "none"
             THEN /\ raised' = r.raised /\ last_op' = "construct_failed"
                  /\ UNCHANGED <<recursion_index, allocation_mat, tree_depth,
                                 allow_failures>>
             ELSE /\ raised' = "none" /\ last_op' = "init"
                  /\ recursion_index' = IF td = 0 THEN r.index ELSE None
                  /\ allocation_mat' = IF td = 0 THEN r.mat ELSE None
                  /\ tree_depth' = td /\ allow_failures' = af
    /\ UNCHANGED <<est_type, rounded_npartition_samples, cov_seed, opt_criteria,
                   frozenVars, target_cost, solver_seed, solver_runs, sweepVars,
                   evalVars, dataVars, estimator_types, ncandidate_models,
                   max_nmodels, best_allow_failures, nprocs, search_seed,
                   best_est, best_model_indices, subsets_tried, best_raised,
                   stat_type, get_raised, index_arg, var_args, var_result,
                   explore_locals>>

\* est._set_recursion_index(index) on a constructed estimator
SetRecursionIndexCall ==
    /\ last_op = "init" /\ tree_depth = 0 /\ get_args # None
    /\ \E index \in IndexArgs :
        \E r \in {_set_recursion_index(est_type, index)} :
          /\ index_arg' = index
          /\ raised' = r.raised
          /\ recursion_index' = IF r.stored THEN r.index ELSE recursion_index
          /\ allocation_mat' = IF r.stored THEN r.mat ELSE allocation_mat
    /\ last_op' = "set_recursion_index"
    /\ UNCHANGED <<est_type, rounded_npartition_samples, cfgVars, frozenVars,
                   target_cost, solver_seed, solver_runs, sweepVars, evalVars,
                   dataVars, estimator_types, ncandidate_models, max_nmodels,
                   best_allow_failures, nprocs, search_seed, best_est,
                   best_model_indices, subsets_tried, best_raised, stat_type,
                   get_args, get_raised, var_args, var_result, explore_locals>>

SpecIndex == InitIndex /\ [][ACVConstruct \/ SetRecursionIndexCall]_vars

\* the recursion-index invariant: entries in [0, M-1] and every model
\* reaches model 0 by parent steps
WellFormedIndex(index) ==
    /\ \A m \in DOMAIN index : index[m] \in Models
    /\ \A m \in DOMAIN index : DepthOf(index, m, NModels) < NModels

\* C15 (as stated): a recursion index of the right length that has an entry
\* outside [0, M-1] or a cycle is rejected with a configuration error, and
\* no allocation matrix is stored for it.
C15_MalformedIndexRejected ==
    (last_op = "set_recursion_index" /\ Len(index_arg) = NModels - 1
       /\ ~WellFormedIndex(index_arg)) =>
        /\ raised = "ValueError"
        /\ recursion_index # index_arg

\* C16: _set_recursion_index with an index whose length is not M-1 raises
\* ValueError and leaves the stored recursion index and allocation matrix
\* as they were.
C16_WrongLengthRaises ==
    [][(last_op' = "set_recursion_index" /\ Len(index_arg') # NModels - 1) =>
          /\ raised' = "ValueError"
          /\ UNCHANGED <<recursion_index, allocation_mat>>]_vars

\* a call with a list that is too long, on an estimator that holds the
\* chain index
C16_Witness ==
    /\ last_op = "set_recursion_index" /\ Len(index_arg) = NModels
    /\ raised = "ValueError"
    /\ recursion_index = ChainRecursionIndex
    /\ allocation_mat = _create_allocation_matrix(est_type, ChainRecursionIndex)

\* C18 (as stated): constructing an ACV estimator with tree_depth and a
\* recursion_index succeeds; the recursion_index is ignored and left to the
\* sweep.
C18_IndexIgnoredWithTreeDepth ==
    (last_op \in {"init", "construct_failed"} /\ get_args # None
       /\ get_args.tree_depth > 0 /\ get_args.recursion_index # None) =>
        /\ raised = "none" /\ last_op = "init"
        /\ tree_depth = get_args.tree_depth /\ recursion_index = None

\* ------------------------------------------------ variance reductions
\* the loop of compute_variance_reductions: nhf_samples is the function's
\* argument (None or <<n>>) as the loop leaves it, acc the numbers of
\* high-fidelity samples handed to high_fidelity_estimator_covariance
RECURSIVE VarianceReductionLoop(_, _, _, _)
VarianceReductionLoop(ii, optimized_estimators, nhf_samples, acc) ==
    IF ii > Len(optimized_estimators) THEN acc
    ELSE \* nhf_samples = int(est._rounded_target_cost/est._costs[0])
         Only({ VarianceReductionLoop(ii + 1, optimized_estimators, nhf, acc \o nhf) :
                nhf \in {IF nhf_samples = None
                         THEN <<FloorDiv(optimized_estimators[ii].rounded_target_cost,
                                         optimized_estimators[ii].costs0)>>
                         ELSE nhf_samples} })

compute_variance_reductions(optimized_estimators, nhf_samples) ==
    VarianceReductionLoop(1, optimized_estimators, nhf_samples, << >>)

\* lists of optimized estimators, each with its frozen cost and the cost of
\* its high-fidelity model; an optimized estimator has at least one
\* high-fidelity sample
OptimizedEstimatorLists ==
    UNION {[1..len -> {est \in [rounded_target_cost : 1..MaxReducedCost,
                                costs0 : 1..HFCost] :
                          est.rounded_target_cost >= est.costs0}] :
           len \in 1..MaxEstimators}

\* before compute_variance_reductions is called
InitVar ==
    /\ var_args \in OptimizedEstimatorLists
    /\ var_result = None /\ get_args = None /\ get_raised = "none"
    /\ index_arg = None /\ stat_type = "mean" /\ explore_locals = None
    /\ estimator_types = << >> /\ ncandidate_models = 0 /\ max_nmodels = 0
    /\ best_allow_failures = FALSE /\ nprocs = 1 /\ search_seed = 0
    /\ best_est = None /\ best_model_indices = None
    /\ subsets_tried = << >> /\ best_raised = "none"
    /\ est_type = "none" /\ recursion_index = None /\ allocation_mat = None
    /\ costs = None /\ cov_seed = 0 /\ opt_criteria = "log_trace"
    /\ tree_depth = 0 /\ allow_failures = FALSE
    /\ rounded_npartition_samples = None
    /\ rounded_nsamples_per_model = None /\ rounded_target_cost = None
    /\ rounded_partition_ratios = None /\ optimized_criteria = None
    /\ optimized_covariance = None /\ optimized_CF = None
    /\ optimized_cf = None /\ optimized_weights = None
    /\ last_op = "new" /\ raised = "none"
    /\ target_cost = 0 /\ solver_seed = 0 /\ solver_runs = 0
    /\ best_result = None /\ best_criteria = None /\ sweep_log = << >>
    /\ call_rows = None /\ est_value = None
    /\ values_per_model = None /\ acv_values = None
    /\ combined_values = None /\ boot_indices = None

\* compute_variance_reductions(optimized_estimators, nhf_samples=...)
ComputeVarianceReductions ==
    /\ last_op = "new" /\ var_args # None
    /\ \E nhf_samples \in {None, <<1>>} :
          /\ get_args' = [nhf_samples |-> nhf_samples]
          /\ var_result' = compute_variance_reductions(var_args, nhf_samples)
    /\ last_op' = "variance_reductions"
    /\ UNCHANGED <<objVars, rounded_npartition_samples, cfgVars, frozenVars,
                   raised, target_cost, solver_seed, solver_runs, sweepVars,
                   evalVars, dataVars, estimator_types, ncandidate_models,
                   max_nmodels, best_allow_failures, nprocs, search_seed,
                   best_est, best_model_indices, subsets_tried, best_raised,
                   stat_type, get_raised, index_arg, var_args, explore_locals>>

SpecVar == InitVar /\ [][ComputeVarianceReductions]_vars

\* C19 (as stated): with nhf_samples=None, the single-fidelity reference of
\* every estimator of the list uses int(rounded_target_cost / costs[0]) of
\* that same estimator.
C19_ReferencePerEstimator ==
    (last_op = "variance_reductions" /\ get_args.nhf_samples = None) =>
        \A ii \in 1..Len(var_args) :
            var_result[ii] = FloorDiv(var_args[ii].rounded_target_cost,
                                      var_args[ii].costs0)

\* ------------------------------------------------------------ get_estimator
\* the arguments of get_estimator: estimator_types as a list or as a single
\* name (names of length 1), stat_type, max_nmodels (0 stands for None) and
\* the keyword allow_failures
GetEstimatorArgs ==
    {[as_list |-> l, names |-> ns, stat |-> st, max_nmodels |-> mx,
      allow_failures |-> af] :
        l \in BOOLEAN,
        ns \in {<<"gmf">>, <<"mc">>, <<"acvmf">>, <<"gmf", "acvmf">>,
                <<"grd", "mlmc">>},
        st \in {"mean", "variance", "median"},
        mx \in {0} \cup 2..NModels, af \in BOOLEAN}

\* before get_estimator is called
InitGet ==
    /\ get_args \in {a \in GetEstimatorArgs : Len(a.names) > 1 => a.as_list}
    /\ nprocs \in {1, 2}
    /\ search_seed \in 0..MaxSearchSeed
    /\ get_raised = "none" /\ index_arg = None
    /\ var_args = None /\ var_result = None /\ explore_locals = None
    /\ stat_type = "mean" /\ estimator_types = << >>
    /\ ncandidate_models = 0 /\ max_nmodels = 0 /\ best_allow_failures = FALSE
    /\ best_est = None /\ best_model_indices = None
    /\ subsets_tried = << >> /\ best_raised = "none"
    /\ est_type = "none" /\ recursion_index = None /\ allocation_mat = None
    /\ costs = None /\ cov_seed = 0 /\ opt_criteria = "log_trace"
    /\ tree_depth = 0 /\ allow_failures = FALSE
    /\ rounded_npartition_samples = None
    /\ rounded_nsamples_per_model = None /\ rounded_target_cost = None
    /\ rounded_partition_ratios = None /\ optimized_criteria = None
    /\ optimized_covariance = None /\ optimized_CF = None
    /\ optimized_cf = None /\ optimized_weights = None
    /\ last_op = "new" /\ raised = "none"
    /\ target_cost = 0 /\ solver_seed = 0 /\ solver_runs = 0
    /\ best_result = None /\ best_criteria = None /\ sweep_log = << >>
    /\ call_rows = None /\ est_value = None
    /\ values_per_model = None /\ acv_values = None
    /\ combined_values = None /\ boot_indices = None

\* get_estimator(estimator_types, stat_type, nqoi, costs, cov,
\* max_nmodels=..., **est_kwargs) for NModels models
GetEstimator ==
    /\ last_op = "new" /\ get_args # None
    /\ IF get_args.as_list \/ get_args.max_nmodels # 0
       THEN \* return BestEstimator(estimator_types, stat_type, ...)
            /\ estimator_types' = get_args.names
            /\ stat_type' = get_args.stat
            /\ ncandidate_models' = NModels
            /\ max_nmodels' = get_args.max_nmodels
            /\ best_allow_failures' = get_args.allow_failures
            /\ get_raised' = "none" /\ last_op' = "init"
            /\ UNCHANGED <<objVars, costs>>
       ELSE IF get_args.names[1] \notin multioutput_estimators
                 \/ get_args.stat \notin multioutput_stats
       THEN /\ get_raised' = "ValueError" /\ last_op' = "get_estimator"
            /\ UNCHANGED <<objVars, costs, estimator_types, stat_type,
                           ncandidate_models, max_nmodels, best_allow_failures>>
       ELSE \* multioutput_estimators[estimator_type](stat, costs, cov)
            /\ est_type' = get_args.names[1]
            /\ costs' = ModelCosts
            /\ recursion_index' =
                  (CASE est_type' \in Policies -> DefaultRecursionIndex
                     [] est_type' \in {"mfmc", "mlmc"} -> ChainRecursionIndex
                     [] OTHER -> None)
            /\ allocation_mat' =
                  (IF recursion_index' = None THEN None
                   ELSE CreateAllocationMatrix(est_type', recursion_index'))
            /\ get_raised' = "none" /\ last_op' = "init"
            /\ UNCHANGED <<estimator_types, stat_type, ncandidate_models,
                           max_nmodels, best_allow_failures>>
    /\ UNCHANGED <<rounded_npartition_samples, cov_seed, opt_criteria,
                   tree_depth, allow_failures, frozenVars, raised, target_cost,
                   solver_seed, solver_runs, sweepVars, evalVars, dataVars,
                   nprocs, search_seed, best_est, best_model_indices,
                   subsets_tried, best_raised, get_args, index_arg, var_args,
                   var_result, explore_locals>>

NextGet == GetEstimator \/ BestAllocateSamples

SpecGet == InitGet /\ [][NextGet]_vars

\* C14 (as stated): get_estimator raises a validation error at the call,
\* before anything is built, whenever an estimator type name or the
\* statistic name is unsupported, for a single name, for a list of names
\* and when max_nmodels is given.
C14_UnsupportedNameRaisesAtCall ==
    (get_args # None /\ last_op # "new"
       /\ (\/ \E p \in 1..Len(get_args.names) :
                get_args.names[p] \notin multioutput_estimators
           \/ get_args.stat \notin multioutput_stats)) =>
        /\ get_raised = "ValueError"
        /\ ncandidate_models = 0 /\ est_type = "none"

\* the subsets of every size of range(min_nlfmodels, max_nmodels), in the
\* order the search enumerates them
RECURSIVE ConcatCombos(_, _)
ConcatCombos(n, last) ==
    IF n > last THEN << >>
    ELSE combinations(n) \o ConcatCombos(n + 1, last)

EnumeratedSubsets ==
    IF SubsetSizes = {} THEN << >>
    ELSE ConcatCombos(MinOf(SubsetSizes),
                      MinOf(SubsetSizes) + Cardinality(SubsetSizes) - 1)

EstimatorPositions == 1..Len(estimator_types)

\* the candidate (subset ss, estimator type number p) is optimized successfully
Feasible(ss, p) ==
    /\ estimator_types[p] \in multioutput_estimators
    /\ SubsetOutcome(SubsetIdx(ss), p) >= 2

\* the sample allocation of the candidate fails
AllocationFails(ss, p) ==
    /\ estimator_types[p] \in multioutput_estimators
    /\ SubsetOutcome(SubsetIdx(ss), p) = 1

\* C11 (as stated): after BestEstimator.allocate_samples returns, the
\* criterion of the retained estimator is less than or equal to that of
\* every successfully optimized candidate of every enumerated estimator
\* type and subset, whatever nprocs is.
C11_GlobalMinimum ==
    (last_op = "allocate" /\ best_raised = "none" /\ ncandidate_models > 0) =>
        \A k \in 1..Len(subsets_tried), p \in EstimatorPositions :
            Feasible(subsets_tried[k], p) =>
                best_est[1].criteria
                    <= SubsetOutcome(SubsetIdx(subsets_tried[k]), p) - 2

\* C12 (as stated): a candidate whose construction or allocation fails is
\* discarded and the search goes on to the remaining candidates, so every
\* enumerated subset is tried; with no feasible candidate the search raises.
C12_FailuresDiscarded ==
    (last_op = "allocate" /\ ncandidate_models > 0) =>
        /\ subsets_tried = EnumeratedSubsets
        /\ (\A k \in 1..Len(EnumeratedSubsets), p \in EstimatorPositions :
                ~Feasible(EnumeratedSubsets[k], p))
              => best_raised = "RuntimeError"

\* C12 (amended): a failed construction is always discarded.  A failed
\* allocation is discarded only when allow_failures is set: then every
\* enumerated subset is tried and, if no candidate is feasible, the search
\* raises RuntimeError.  Without allow_failures the first failed allocation
\* ends the search with its error, no estimator is retained and no subset of
\* a later size is tried; with no failed allocation every subset is tried.
C12_FailuresDiscardedWhenAllowed ==
    (last_op = "allocate" /\ ncandidate_models > 0) =>
        LET failing == {k \in 1..Len(subsets_tried) :
                          \E p \in EstimatorPositions :
                              AllocationFails(subsets_tried[k], p)}
            nofeasible == \A k \in 1..Len(EnumeratedSubsets),
                             p \in EstimatorPositions :
                                ~Feasible(EnumeratedSubsets[k], p)
        IN  /\ (best_allow_failures \/ failing = {}) =>
                  /\ subsets_tried = EnumeratedSubsets
                  /\ nofeasible =>
                        (best_raised = "RuntimeError" /\ best_est = None)
            /\ (~best_allow_failures /\ failing # {}) =>
                  /\ best_raised = "RuntimeError" /\ best_est = None
                  /\ \A j \in 1..Len(subsets_tried) :
                        j > MinOf(failing) =>
                            Cardinality(subsets_tried[j])
                              = Cardinality(subsets_tried[MinOf(failing)])

\* a search that met a failed allocation and a failed construction, went
\* on, and returned an estimator
C12_Witness ==
    /\ last_op = "allocate" /\ best_allow_failures /\ best_raised = "none"
    /\ Len(subsets_tried) > 1 /\ best_est # None
    /\ \E p \in EstimatorPositions : AllocationFails(subsets_tried[1], p)
    /\ \E k \in 1..Len(subsets_tried), p \in EstimatorPositions :
          SubsetOutcome(SubsetIdx(subsets_tried[k]), p) = 0

\* C13 (as stated): with nprocs > 1 the search retains the same subset and
\* estimator, or raises as, the serial search on the same inputs.
C13_ParallelEqualsSerial ==
    (last_op = "allocate" /\ ncandidate_models > 0 /\ nprocs > 1) =>
        \A serial \in {_get_best_estimator(1)} :
            /\ best_raised = serial.raised
            /\ serial.raised = "none" =>
                  /\ best_est = serial.best_est
                  /\ best_model_indices = serial.best_model_indices

\* C17: once allocate_samples has frozen the state of an ACV estimator, no
\* call of generate_samples_per_model, __call__ or bootstrap changes a
\* frozen field, the allocation matrix or the recursion index.
C17_CallsKeepFrozenState ==
    [][(est_type \in ACVTypes /\ last_op' \in {"call", "generate", "bootstrap"}) =>
          UNCHANGED <<rounded_npartition_samples, frozenVars, allocation_mat,
                      recursion_index>>]_vars

\* samples generated with pilot samples held back, after an earlier call
C17_Witness ==
    /\ est_type \in ACVTypes /\ last_op = "generate" /\ raised = "none"
    /\ est_value # None /\ est_value[2] > 0
    /\ rounded_npartition_samples[0] >= est_value[2]
    /\ optimized_weights # None

\* C20: the GMF allocation matrix of a recursion index with entries in
\* [0, M-1] has shape (M, 2M) with entries 0 and 1, column 0 all zeros,
\* column 1 active only in row 0, and for every m >= 1 column 2m+1 active
\* exactly in rows 0..m and column 2m exactly in rows 0..parent(m).
C20_GMFMatrix ==
    (est_type = "gmf" /\ allocation_mat # None
       /\ recursion_index \in RecursionIndices) =>
        /\ DOMAIN allocation_mat = Models
        /\ \A r \in Models :
              /\ DOMAIN allocation_mat[r] = Cols
              /\ \A c \in Cols : allocation_mat[r][c] \in {0, 1}
        /\ ActiveInColumn(allocation_mat, 0) = {}
        /\ ActiveInColumn(allocation_mat, 1) = {0}
        /\ \A m \in LFModels :
              /\ ActiveInColumn(allocation_mat, 2*m + 1) = 0..m
              /\ ActiveInColumn(allocation_mat, 2*m) = 0..recursion_index[m]

\* a GMF matrix whose last model has a parent other than model 0 and the
\* model itself, set by _set_recursion_index
C20_Witness ==
    /\ est_type = "gmf" /\ allocation_mat # None
    /\ recursion_index \in RecursionIndices
    /\ recursion_index[NModels - 1] \notin {0, NModels - 1}
    /\ ActiveInColumn(allocation_mat, 2*(NModels - 1))
          = 0..recursion_index[NModels - 1]

\* C3 (as stated): after allocate_samples returns, on every estimator type,
\* the frozen partition counts are non-negative and the high-fidelity count
\* is positive; and no allocation, returning or not, freezes a
\* high-fidelity count of zero.
C3_FrozenCountsPositive ==
    /\ (last_op = "allocate" /\ raised = "none") =>
          /\ rounded_npartition_samples # None
          /\ \A j \in DOMAIN rounded_npartition_samples :
                rounded_npartition_samples[j] >= 0
          /\ rounded_npartition_samples[0] >= 1
    /\ rounded_npartition_samples # None => rounded_npartition_samples[0] # 0

\* C4: a GMF, GIS or GRD estimator asked to allocate a target cost below the
\* sum of the model costs raises ValueError without a single solver run, with
\* a fixed index and in a sweep alike; the sweep records no criterion for it.
C4_SmallTargetRaisesBeforeSolver ==
    (/\ last_op = "allocate"
     /\ est_type \in Policies
     /\ target_cost < SumCosts(costs)) =>
        /\ raised = "ValueError"
        /\ solver_runs = 0
        /\ sweep_log = << >>
        /\ optimized_criteria = None

C4_Witness ==
    /\ last_op = "allocate"
    /\ est_type \in Policies
    /\ tree_depth > 0 /\ allow_failures
    /\ target_cost < SumCosts(costs)
    /\ raised = "ValueError"

\* C5 (as stated): on every estimator type, a call with value arrays of which
\* one has a row count other than the model's allocated count raises
\* ValueError and gives no estimate.
C5_WrongRowCountRaises ==
    (/\ last_op = "call"
     /\ \E m \in DOMAIN call_rows :
            call_rows[m] # rounded_nsamples_per_model[m]) =>
        /\ raised = "ValueError"
        /\ est_value = None

\* C6 (as stated): after a successful allocation of a CV, GMF, GIS, GRD, MFMC
\* or MLMC estimator the frozen weights are (-pinv(CF) cf^T)^T of the frozen
\* (CF, cf), and CF, cf, the covariance and the criterion are those of the
\* frozen rounded partition counts.
C6_WeightsFromFrozenCounts ==
    (/\ last_op = "allocate" /\ raised = "none"
     /\ est_type \in {"cv"} \cup ACVTypes) =>
        LET d == _get_discrepancy_covariances(
                     est_type, allocation_mat, rounded_npartition_samples)
        IN  /\ optimized_CF = d.CF
            /\ optimized_cf = d.cf
            /\ optimized_weights = <<"neg_pinv_T", optimized_CF, optimized_cf>>
            /\ optimized_covariance[2] = rounded_npartition_samples[0]
            /\ optimized_covariance[4] = optimized_CF
            /\ optimized_covariance[5] = optimized_cf
            /\ optimized_criteria =
                  <<CriterionValue(cov_seed, allocation_mat,
                                   rounded_npartition_samples)>>

\* an estimator before its first allocation
NotAllocated ==
    [nps |-> None, nsamples |-> None, cost |-> None, ratios |-> None,
     criteria |-> None, covariance |-> None, CF |-> None, cf |-> None,
     weights |-> None]

\* the criterion the k-th index of the sweep reaches when it is allocated on
\* its own, on an estimator that holds nothing of the other indices
CriterionAlone(indices, k) ==
    LET r == _allocate_samples_for_single_recursion(
                 NotAllocated, CreateAllocationMatrix(est_type, indices[k]),
                 target_cost, solver_seed, k)
    IN  IF r.raised = "none" THEN r.F.criteria[1] ELSE CritInf

\* C8: a sweep that returns has optimized every enumerated index, each as if
\* alone, and leaves the estimator on the first index, in enumeration order,
\* whose criterion is the smallest, with that index's allocation matrix.
C8_SweepKeepsFirstSmallest ==
    (last_op = "allocate" /\ tree_depth > 0 /\ raised = "none") =>
        LET indices == _get_acv_recursion_indices(tree_depth)
            ks == 1..Len(indices)
            first == CHOOSE k \in ks :
                        /\ \A q \in ks : sweep_log[k].criteria <= sweep_log[q].criteria
                        /\ \A q \in 1..(k-1) : sweep_log[q].criteria > sweep_log[k].criteria
        IN  /\ Len(sweep_log) = Len(indices)
            /\ \A k \in ks :
                  /\ sweep_log[k].index = indices[k]
                  /\ sweep_log[k].criteria = CriterionAlone(indices, k)
            /\ recursion_index = indices[first]
            /\ allocation_mat = CreateAllocationMatrix(est_type, indices[first])

C8_Witness ==
    /\ last_op = "allocate" /\ tree_depth > 0 /\ raised = "none"
    /\ \E k1, k2 \in 1..Len(sweep_log) :
          /\ 1 < k1 /\ k1 < k2
          /\ sweep_log[k1].criteria = sweep_log[k2].criteria
          /\ sweep_log[k1].criteria < sweep_log[1].criteria
          /\ \A q \in 1..Len(sweep_log) :
                sweep_log[k1].criteria <= sweep_log[q].criteria
          /\ recursion_index = sweep_log[k1].index

\* C9: in a sweep a RuntimeError of one index is, with allow_failures, logged
\* as an infinite criterion that is never the best, and the sweep visits
\* every index; without allow_failures it ends the sweep at that index; and
\* if every index fails the sweep raises RuntimeError.
C9_SweepFailureHandling ==
    (last_op = "allocate" /\ tree_depth > 0 /\ target_cost >= SumCosts(costs)) =>
        LET indices == _get_acv_recursion_indices(tree_depth)
            ks == 1..Len(indices)
            fails(k) == \/ ~minimize(solver_seed, k).success
                        \/ CriterionAlone(indices, k) = CritInf
        IN  IF allow_failures
            THEN /\ Len(sweep_log) = Len(indices)
                 /\ \A k \in ks :
                       /\ sweep_log[k].failed = fails(k)
                       /\ fails(k) =>
                             /\ sweep_log[k].criteria = CritInf
                             /\ best_result # None =>
                                   best_result[1].index # indices[k]
                             /\ raised = "none" => recursion_index # indices[k]
                 /\ (\A k \in ks : fails(k)) <=> raised = "RuntimeError"
            ELSE /\ (\E k \in ks : fails(k)) <=> raised = "RuntimeError"
                 /\ \A k \in ks :
                       (fails(k) /\ \A q \in 1..(k-1) : ~fails(q)) =>
                           /\ Len(sweep_log) = k - 1
                           /\ recursion_index = indices[k]

C9_Witness ==
    /\ last_op = "allocate" /\ tree_depth > 0 /\ allow_failures
    /\ raised = "none"
    /\ \E k1, k2 \in 1..Len(sweep_log) :
          /\ k1 < k2
          /\ sweep_log[k1].failed
          /\ ~sweep_log[k2].failed
          /\ recursion_index = sweep_log[k2].index

\* ------------------------------------------------- ratios to counts
\* the partition ratios a solver may hand to _set_optimized_params: the
\* answers of minimize, and ratios over the denominator RatioScale that are
\* all 1 but the last, which is a little above 1 or above 2
PartitionRatioInputs ==
    {SolverAnswers[k] : k \in 1..Len(SolverAnswers)}
      \cup {[num |-> [m \in LFModels |->
                        IF m = NModels - 1 THEN e ELSE RatioScale],
             den |-> RatioScale] :
            e \in {RatioScale + 1, RatioScale + 4, 2*RatioScale + 1}}

\* ACVEstimator._set_optimized_params(partition_ratios, target_cost) on a
\* GMF, GIS or GRD estimator, called any number of times; var_result keeps
\* the local npartition_samples of _round_partition_ratios
SetOptimizedParams ==
    /\ est_type \in Policies /\ tree_depth = 0
    /\ \E target \in TargetCosts, pr \in PartitionRatioInputs :
        \E p \in {_set_optimized_params(Frozen, allocation_mat, pr, target)} :
          /\ StoreFrozen(p.F)
          /\ raised' = p.raised
          /\ target_cost' = target
          /\ var_args' = pr
          /\ var_result' = _npartition_samples_from_partition_ratios(
                               allocation_mat, costs, target, pr)
    /\ last_op' = "set_optimized_params"
    /\ UNCHANGED <<objVars, cfgVars, solver_seed, solver_runs, sweepVars,
                   evalVars, dataVars, estimator_types, ncandidate_models,
                   max_nmodels, best_allow_failures, nprocs, search_seed,
                   best_est, best_model_indices, subsets_tried, best_raised,
                   stat_type, get_args, get_raised, index_arg, explore_locals>>

\* a GMF, GIS or GRD estimator constructed with a recursion index
InitRatio == Init /\ est_type \in Policies /\ tree_depth = 0 /\ cov_seed = 0

SpecRatio == InitRatio /\ [][SetOptimizedParams]_vars

\* C25: the continuous partition counts derived from positive partition
\* ratios and a target cost give per-model counts (the sum of the counts of
\* the partitions active in column 2m or 2m+1) whose total cost
\* sum_m cost[m]*count[m] is exactly the target cost.  The counts are
\* fractions over one denominator d; the sum of the weighted numerators is
\* formed as quotient and remainder by d.
C25_BudgetByConstruction ==
    last_op = "set_optimized_params" =>
        LET x == var_result
            d == x[0].d
            \* the pair (q, r) plus w times the fraction n/d
            RECURSIVE AddTimes(_, _, _)
            AddTimes(acc, n, w) ==
                IF w = 0 THEN acc
                ELSE LET s == acc.r + (n % d)
                     IN  AddTimes([q |-> acc.q + (n \div d) + (s \div d),
                                   r |-> s % d], n, w - 1)
            RECURSIVE Total(_, _)
            Total(cells, acc) ==
                IF cells = {} THEN acc
                ELSE LET c == CHOOSE y \in cells : TRUE
                     IN  Total(cells \ {c},
                               AddTimes(acc, x[c[2]].n, costs[c[1]]))
            active == {c \in Models \X Models :
                          c[2] \in ActivePartitions(allocation_mat, c[1])}
        IN  /\ \A j \in Models : x[j].d = d /\ x[j].n > 0
            /\ Total(active, [q |-> 0, r |-> 0]) = [q |-> target_cost, r |-> 0]

\* counts that are not integers, for a GIS matrix of a chain index
C25_Witness ==
    /\ last_op = "set_optimized_params"
    /\ est_type = "gis"
    /\ recursion_index = ChainRecursionIndex
    /\ var_args = SolverAnswers[2]
    /\ target_cost > SumCosts(costs)
    /\ \A j \in Models : var_result[j].n % var_result[j].d # 0

\* C26: _round_partition_ratios raises RuntimeError, and no frozen field
\* changes, whenever the implied high-fidelity count is below 1 - 1e-8;
\* otherwise every implied count x is rounded to the integer k with
\* k <= x + 1e-8 < k + 1 (so x within 1e-8 below k becomes k and nothing
\* is rounded up by more), a count >= 1 or >= 2 stays so, and the rounded
\* ratios are the rounded counts over the rounded high-fidelity count.
C26_RoundingWithTolerance ==
    [][last_op' = "set_optimized_params" =>
        LET x == var_result'
            tol(j) == x[j].d \div EpsInv
        IN  IF x[0].d - x[0].n > tol(0)
            THEN /\ raised' = "RuntimeError"
                 /\ Frozen' = Frozen
            ELSE /\ raised' = "none"
                 /\ \A j \in Models :
                      \E k \in {rounded_npartition_samples'[j]} :
                         /\ k * x[j].d - x[j].n <= tol(j)
                         /\ (k + 1) * x[j].d - x[j].n > tol(j)
                         /\ \A least \in {1, 2} :
                               x[j].n >= least * x[j].d => k >= least
                 /\ rounded_partition_ratios' =
                       <<[num |-> [m \in LFModels |->
                                      rounded_npartition_samples'[m]],
                          den |-> rounded_npartition_samples'[0]]>>
    ]_vars

\* a high-fidelity count within 1e-8 below 2 was rounded to 2
C26_Witness ==
    /\ last_op = "set_optimized_params"
    /\ raised = "none"
    /\ var_result[0].n % var_result[0].d # 0
    /\ var_result[0].n \div var_result[0].d = 1
    /\ rounded_npartition_samples[0] = 2

\* C21: the GIS allocation matrix of a recursion index has, for every
\* m >= 1, column 2m active exactly in row parent(m) and column 2m+1 equal
\* to the elementwise maximum of column 2m and the unit indicator of m, so
\* the plain set of every model contains its starred set; there is no
\* downward propagation (no row other than m and parent(m) is marked).
C21_GISMatrix ==
    (est_type = "gis" /\ allocation_mat # None
       /\ recursion_index \in RecursionIndices) =>
        /\ ActiveInColumn(allocation_mat, 0) = {}
        /\ ActiveInColumn(allocation_mat, 1) = {0}
        /\ \A m \in LFModels :
              /\ ActiveInColumn(allocation_mat, 2*m) = {recursion_index[m]}
              /\ \A r \in Models :
                    allocation_mat[r][2*m + 1] =
                        IF allocation_mat[r][2*m] = 1 \/ r = m THEN 1 ELSE 0
              /\ ActiveInColumn(allocation_mat, 2*m)
                    \subseteq ActiveInColumn(allocation_mat, 2*m + 1)

\* a GIS matrix, set by _set_recursion_index, whose last model has model 1
\* as parent: GMF would also mark row 0 in its two columns
C21_Witness ==
    /\ est_type = "gis" /\ allocation_mat # None
    /\ recursion_index \in RecursionIndices
    /\ NModels >= 3 /\ recursion_index[NModels - 1] = 1
    /\ ActiveInColumn(allocation_mat, 2*(NModels - 1)) = {1}
    /\ ActiveInColumn(allocation_mat, 2*NModels - 1) = {1, NModels - 1}

\* C22: the GRD allocation matrix of a recursion index is the GMF matrix
\* before its propagation step: column 2m+1 is active exactly in row m and
\* column 2m (m >= 1) exactly in row parent(m), so every column but column
\* 0 has exactly one active row, and propagating it gives the GMF matrix.
C22_GRDMatrix ==
    (est_type = "grd" /\ allocation_mat # None
       /\ recursion_index \in RecursionIndices) =>
        /\ ActiveInColumn(allocation_mat, 0) = {}
        /\ \A m \in Models : ActiveInColumn(allocation_mat, 2*m + 1) = {m}
        /\ \A m \in LFModels :
              ActiveInColumn(allocation_mat, 2*m) = {recursion_index[m]}
        /\ \A c \in Cols \ {0} :
              Cardinality(ActiveInColumn(allocation_mat, c)) = 1
        /\ PropagateDown(allocation_mat)
              = _get_allocation_matrix_gmf(recursion_index)

\* a GRD matrix, set by _set_recursion_index, whose last model has model 1
\* as parent, so that propagation would change it
C22_Witness ==
    /\ est_type = "grd" /\ allocation_mat # None
    /\ recursion_index \in RecursionIndices
    /\ NModels >= 3 /\ recursion_index[NModels - 1] = 1
    /\ ActiveInColumn(allocation_mat, 2*(NModels - 1)) = {1}
    /\ PropagateDown(allocation_mat) # allocation_mat

C24_SubsetsSelectFlaggedPartitions ==
    acv_values # None =>
      \* the pool index of sample t (from 1) of partition j
      LET PoolSample(j, t) ==
            SumOver(rounded_npartition_samples, {k \in Models : k < j}) + t - 1
      IN
        /\ acv_values[1] = << >>
        /\ acv_values[2] = [t \in 1..rounded_npartition_samples[0] |-> PoolSample(0, t)]
        /\ \A c \in Cols :
              /\ Len(acv_values[c+1]) =
                    SumOver(rounded_npartition_samples,
                            ActiveInColumn(allocation_mat, c))
              /\ \A j \in ActiveInColumn(allocation_mat, c) :
                    \A t \in 1..rounded_npartition_samples[j] :
                        acv_values[c+1][BlockStart(c, j) + t] = PoolSample(j, t)
        /\ \A j, k \in Models :
              j # k =>
                {PoolSample(j, t) : t \in 1..rounded_npartition_samples[j]}
                  \cap {PoolSample(k, t) : t \in 1..rounded_npartition_samples[k]}
                  = {}

\* subsets were separated for a model whose starred and plain columns flag
\* different partitions, the later partition placed first in no array
C24_Witness ==
    /\ acv_values # None
    /\ NModels >= 3
    /\ est_type = "gis"
    /\ recursion_index[1] = NModels - 1
    /\ \A j \in Models : rounded_npartition_samples[j] >= 1
    /\ ActiveInColumn(allocation_mat, 2) = {NModels - 1}
    /\ ActiveInColumn(allocation_mat, 3) = {1, NModels - 1}
    /\ acv_values[3] # << >>
    /\ Len(acv_values[4]) > Len(acv_values[3])

\* C27 (as stated): a call of allocate_samples on an ACV estimator that
\* raises leaves every frozen field, the recursion index and the allocation
\* matrix exactly as they were before the call.
C27_FailureAtomicity ==
    [][(est_type \in ACVTypes /\ last_op' = "allocate" /\ raised' # "none") =>
          /\ Frozen' = Frozen
          /\ recursion_index' = recursion_index
          /\ allocation_mat' = allocation_mat]_vars

\* C28 (as stated): after a sweep the frozen rounded ratios, rounded cost
\* and criterion are the ones recorded for the winning index, and the
\* frozen counts are the winner's ratios times its rounded high-fidelity
\* count.
C28_SweepKeepsWinnersRecord ==
    (last_op = "allocate" /\ tree_depth > 0 /\ raised = "none") =>
        \E best \in {best_result[1]}, now \in {rounded_partition_ratios[1]} :
            /\ recursion_index = best.index
            /\ \A m \in LFModels :
                  now.num[m] * best.ratios.den = best.ratios.num[m] * now.den
            /\ rounded_target_cost = best.cost
            /\ optimized_criteria = <<best.criteria>>

\* ------------------------------------------------------- re-allocation
\* construction of a GMF, GIS, GRD, MFMC or MLMC estimator with the unit
\* costs or, for a GMF estimator with a fixed index, with the same costs in
\* units of 1/CostScale
InitRealloc ==
    /\ est_type \in ACVTypes
    /\ cov_seed = 0
    /\ opt_criteria = "log_trace"
    /\ tree_depth \in (IF est_type \in Policies THEN 0..(NModels-1) ELSE {0})
    /\ costs \in (IF est_type = "gmf" /\ tree_depth = 0
                  THEN {ModelCosts, [m \in Models |-> CostScale * ModelCosts[m]]}
                  ELSE {ModelCosts})
    /\ allow_failures \in (IF tree_depth > 0 THEN BOOLEAN ELSE {FALSE})
    /\ recursion_index \in
          (CASE est_type \in {"mfmc", "mlmc"} -> {ChainRecursionIndex}
             [] OTHER -> IF tree_depth > 0 THEN {None} ELSE InitIndices)
    /\ allocation_mat =
          (IF recursion_index = None THEN None
           ELSE CreateAllocationMatrix(est_type, recursion_index))
    /\ rounded_npartition_samples = None
    /\ rounded_nsamples_per_model = None /\ rounded_target_cost = None
    /\ rounded_partition_ratios = None /\ optimized_criteria = None
    /\ optimized_covariance = None /\ optimized_CF = None
    /\ optimized_cf = None /\ optimized_weights = None
    /\ last_op = "init" /\ raised = "none"
    /\ target_cost = 0 /\ solver_seed = 0 /\ solver_runs = 0
    /\ best_result = None /\ best_criteria = None /\ sweep_log = << >>
    /\ call_rows = None /\ est_value = None
    /\ values_per_model = None /\ acv_values = None
    /\ combined_values = None /\ boot_indices = None
    /\ NoBestEstimator

\* ACVEstimator.allocate_samples(target_cost) on a new estimator or on one
\* that holds the outcome of an earlier call; with the scaled costs the
\* target is one cost unit short of a whole number of unit costs
ACVAllocateSamplesAgain ==
    /\ est_type \in ACVTypes /\ last_op \in {"init", "allocate"}
    /\ \E target \in
            (IF costs = ModelCosts THEN TargetCosts
             ELSE {q * CostScale - 1 :
                     q \in SumCosts(ModelCosts)..(HFCost + NModels * (NModels - 1))}),
          seed \in 0..(IF tree_depth > 0 THEN MaxSolverSeed ELSE SolverBase - 1) :
        \E st \in
            {IF tree_depth > 0
             THEN _allocate_samples_for_all_recursion_indices(
                      _get_acv_recursion_indices(tree_depth), target, seed)
             ELSE Only({ [F |-> r.F, index |-> recursion_index,
                          mat |-> allocation_mat, runs |-> r.runs,
                          raised |-> r.raised, log |-> sweep_log,
                          best_result |-> best_result,
                          best_criteria |-> CritInf] :
                         r \in {_allocate_samples_for_single_recursion(
                                    Frozen, allocation_mat, target, seed, 1)} })} :
          /\ StoreFrozen(st.F)
          /\ recursion_index' = st.index
          /\ allocation_mat' = st.mat
          /\ raised' = st.raised
          /\ solver_runs' = st.runs
          /\ best_result' = st.best_result
          /\ best_criteria' = IF tree_depth > 0 THEN <<st.best_criteria>>
                              ELSE best_criteria
          /\ sweep_log' = st.log
          /\ target_cost' = target
          /\ solver_seed' = seed
    /\ last_op' = "allocate"
    /\ UNCHANGED <<est_type, cfgVars, evalVars, dataVars, bestVars>>

SpecRealloc == InitRealloc /\ [][ACVAllocateSamplesAgain]_vars

\* C29 (as stated): after every successful allocate_samples, first or
\* repeated, with a fixed index or a sweep, the frozen per-model counts are
\* the sums of the frozen partition counts over the partitions active in
\* columns 2m and 2m+1 of the current matrix, the matrix is the one of the
\* current recursion index, the frozen rounded cost is
\* sum_m cost[m]*count[m], and the rounded cost is at most the target cost.
C29_FrozenStateConsistent ==
    (est_type \in ACVTypes /\ last_op = "allocate" /\ raised = "none") =>
        /\ \A m \in Models :
              rounded_nsamples_per_model[m] =
                  SumOver(rounded_npartition_samples,
                          ActivePartitions(allocation_mat, m))
        /\ allocation_mat = CreateAllocationMatrix(est_type, recursion_index)
        /\ rounded_target_cost =
              <<SumOver([m \in Models |-> costs[m] * rounded_nsamples_per_model[m]],
                        Models)>>
        /\ rounded_target_cost[1] <= target_cost

\* C29 (amended): the same, with the rounded cost allowed to exceed the
\* target cost by the cost of the 1e-8 by which a partition count may be
\* rounded up: at most 1e-8 * sum_m cost[m] * (partitions active for m).
C29_FrozenStateConsistentWithinTolerance ==
    (est_type \in ACVTypes /\ last_op = "allocate" /\ raised = "none") =>
        /\ \A m \in Models :
              rounded_nsamples_per_model[m] =
                  SumOver(rounded_npartition_samples,
                          ActivePartitions(allocation_mat, m))
        /\ allocation_mat = CreateAllocationMatrix(est_type, recursion_index)
        /\ rounded_target_cost =
              <<SumOver([m \in Models |-> costs[m] * rounded_nsamples_per_model[m]],
                        Models)>>
        /\ rounded_target_cost[1] - target_cost <=
              SumOver([m \in Models |->
                          costs[m] * Cardinality(ActivePartitions(allocation_mat, m))],
                      Models) \div EpsInv

\* a sweep re-allocated an estimator onto another recursion index than the
\* one its previous allocation had left
C29_Witness ==
    /\ est_type \in Policies /\ last_op = "allocate" /\ raised = "none"
    /\ tree_depth > 0
    /\ Len(sweep_log) > 1
    /\ recursion_index # sweep_log[Len(sweep_log)].index
    /\ recursion_index # sweep_log[1].index
    /\ rounded_target_cost[1] < target_cost

\* ------------------------------------------------- AETCBLUE.explore
\* the step proposes one sample more than twice the rows it was given
_explore_step_past_double(total_budget, explore_cost, nsamples, rate2) ==
    Only({ [raised |-> total_budget - n * explore_cost < 0,
            nexplore_samples |-> n,
            exploit_budget |-> total_budget - n * explore_cost] :
           n \in { IF total_budget - p * explore_cost >= 0 THEN p
                   ELSE IF total_budget >= 0
                        THEN total_budget \div explore_cost
                        ELSE -((-total_budget) \div explore_cost) :
                   p \in { IF rate2 > 4 * nsamples THEN 2 * nsamples + 1
                           ELSE IF rate2 > 2 * nsamples
                                THEN (2 * nsamples + rate2 + 3) \div 4
                                ELSE nsamples } } })

\* AETCBLUE._explore_step: result[0], whether RuntimeError is raised, and the
\* budget total_budget-nexplore_samples*explore_cost left for exploitation.
\* rate2 is twice best_rate, so that rates are whole or half numbers and
\* int(np.ceil((nsamples+best_rate)/2)) is the ceiling of
\* (2*nsamples + rate2)/4; int(total_budget/explore_cost) truncates towards
\* zero
_explore_step(total_budget, explore_cost, nsamples, rate2) ==
    Only({ [raised |-> total_budget - n * explore_cost < 0,
            nexplore_samples |-> n,
            exploit_budget |-> total_budget - n * explore_cost] :
           n \in { IF total_budget - p * explore_cost >= 0 THEN p
                   ELSE IF total_budget >= 0
                        THEN total_budget \div explore_cost
                        ELSE -((-total_budget) \div explore_cost) :
                   p \in { IF rate2 > 4 * nsamples THEN 2 * nsamples
                           ELSE IF rate2 > 2 * nsamples
                                THEN (2 * nsamples + rate2 + 3) \div 4
                                ELSE nsamples } } })

\* an AETCBLUE object with positive costs, before explore is called
InitExplore ==
    /\ est_type = "aetcblue"
    /\ costs \in [Models -> 1..MaxModelCost]
    /\ cov_seed = 0 /\ opt_criteria = "log_trace" /\ tree_depth = 0
    /\ allow_failures = FALSE
    /\ recursion_index = None /\ allocation_mat = None
    /\ rounded_npartition_samples = None
    /\ rounded_nsamples_per_model = None /\ rounded_target_cost = None
    /\ rounded_partition_ratios = None /\ optimized_criteria = None
    /\ optimized_covariance = None /\ optimized_CF = None
    /\ optimized_cf = None /\ optimized_weights = None
    /\ last_op = "init" /\ raised = "none"
    /\ target_cost = 0 /\ solver_seed = 0 /\ solver_runs = 0
    /\ best_result = None /\ best_criteria = None /\ sweep_log = << >>
    /\ call_rows = None /\ est_value = None
    /\ values_per_model = None /\ acv_values = None
    /\ combined_values = None /\ boot_indices = None
    /\ NoBestEstimator

\* AETCBLUE.explore(total_budget, subsets) up to the loop: the largest subset
\* holds max_ncovariates of the low-fidelity models
ExploreCall ==
    /\ est_type = "aetcblue" /\ last_op = "init"
    /\ \E total_budget \in (-1)..MaxBudget, max_ncovariates \in 1..(NModels-1) :
          explore_locals' = [total_budget |-> total_budget,
                             nexplore_samples |-> max_ncovariates + 2,
                             nexplore_samples_prev |-> 0,
                             nvalues |-> 0,
                             last_result |-> None]
    /\ last_op' = "explore"
    /\ UNCHANGED <<objVars, rounded_npartition_samples, cfgVars, frozenVars,
                   raised, target_cost, solver_seed, solver_runs, sweepVars,
                   evalVars, dataVars, estimator_types, ncandidate_models,
                   max_nmodels, best_allow_failures, nprocs, search_seed,
                   best_est, best_model_indices, subsets_tried, best_raised,
                   stat_type, get_args, get_raised, index_arg, var_args,
                   var_result>>

\* one pass of the loop of AETCBLUE.explore: the new samples are evaluated,
\* the step is taken on all rows of values, and the loop condition is tested;
\* the best subset's rate is max(..., nsamples), whatever the values are
ExploreRound ==
    /\ est_type = "aetcblue" /\ last_op = "explore"
    /\ explore_locals.nexplore_samples - explore_locals.nexplore_samples_prev > 0
    /\ \E nsamples \in {explore_locals.nexplore_samples} :
       \E rate2 \in (2 * nsamples)..(4 * nsamples + 1) :
       \E result \in {_explore_step(explore_locals.total_budget,
                                    SumCosts(costs), nsamples, rate2)} :
          IF result.raised
          THEN /\ raised' = "RuntimeError"
               /\ last_op' = "explore_raised"
               /\ explore_locals' =
                     [explore_locals EXCEPT !.nexplore_samples_prev = nsamples,
                                            !.nvalues = nsamples]
          ELSE /\ raised' = raised
               /\ last_op' = (IF result.nexplore_samples - nsamples > 0
                              THEN "explore" ELSE "explore_returned")
               /\ explore_locals' =
                     [explore_locals EXCEPT
                         !.nexplore_samples_prev = nsamples,
                         !.nvalues = nsamples,
                         !.nexplore_samples = result.nexplore_samples,
                         !.last_result = <<result>>]
    /\ UNCHANGED <<objVars, rounded_npartition_samples, cfgVars, frozenVars,
                   target_cost, solver_seed, solver_runs, sweepVars,
                   evalVars, dataVars, estimator_types, ncandidate_models,
                   max_nmodels, best_allow_failures, nprocs, search_seed,
                   best_est, best_model_indices, subsets_tried, best_raised,
                   stat_type, get_args, get_raised, index_arg, var_args,
                   var_result>>

\* the loop body runs to its end once entered: explore is sequential code
SpecExplore ==
    InitExplore /\ [][ExploreCall \/ ExploreRound]_vars /\ WF_vars(ExploreRound)

============================================================================
